---------------------------- MODULE Spec2Model ----------------------------
(***************************************************************************)
(* A model of the technical-indicator and signal-fusion engine of the      *)
(* stock breakout analyzer: TechnicalAnalysis (analyze, analyzeBreakout    *)
(* and the indicators that feed the fused direction) and                   *)
(* PatternRecognitionService (the five detectors, the confidence blend     *)
(* and the dominant-pattern summary).                                      *)
(*                                                                         *)
(* The engine is stateless: every operation is a function of its           *)
(* arguments.  The state of the model is the last call made on the         *)
(* engine: which operation, with which argument, and what came back.       *)
(*                                                                         *)
(* Numbers.  JavaScript numbers are modelled by exact rationals extended   *)
(* with NaN and the two infinities (records [k, n, d]); an undefined       *)
(* operand of an arithmetic or relational operator behaves as NaN, as in   *)
(* JavaScript.  Rounding of IEEE doubles is not modelled there.  It is     *)
(* modelled, bit for bit, for the one place where it decides a result:     *)
(* the weighted sum that analyzeBreakout compares with +-0.2.              *)
(***************************************************************************)
EXTENDS Integers, Sequences, FiniteSets, Bags, TLC

VARIABLES op, arg, res

\* The caller's input as the last call left it, for the operations whose uses
\* of the input are followed; Untracked for the others.
VARIABLES inputAfter

\* The APIHandler: its clock, cache and rate limiter, the getMarketData calls
\* in progress, the requests made of the HTTP client, when a fetch for each
\* symbol last succeeded, and what the call that ended in the last step gave.
VARIABLES now, cache, tokens, lastRefill, calls, httpCalls, completedAt, outcome

\* The times at which waitForToken resolved during the last timeWindow, kept
\* for the RateLimiter on its own.
VARIABLES granted

\* The MarketDataService: the historical cache of its DataManager, its
\* getHistoricalData calls in progress and the number of calls it made to
\* alphaVantageService.getHistoricalData.
VARIABLES historicalCache, pending, fetches

history == <<historicalCache, pending, fetches>>

engine == <<op, arg, res, inputAfter>>

api == <<now, cache, tokens, lastRefill, calls, httpCalls, completedAt, outcome, granted,
        historicalCache, pending, fetches>>

vars == <<op, arg, res, inputAfter, now, cache, tokens, lastRefill, calls, httpCalls, completedAt, outcome,
         granted, historicalCache, pending, fetches>>

-----------------------------------------------------------------------------
(* Exact numbers with NaN and infinities                                   *)

NaN == [k |-> "nan", n |-> 0, d |-> 1]

PInf == [k |-> "inf", n |-> 1, d |-> 1]

NInf == [k |-> "inf", n |-> -1, d |-> 1]

Abs(i) == IF i < 0 THEN -i ELSE i

Sgn(i) == IF i < 0 THEN -1 ELSE IF i > 0 THEN 1 ELSE 0

RECURSIVE GCD(_, _)
GCD(a, b) == IF b = 0 THEN a ELSE GCD(b, a % b)

\* n/d as JavaScript evaluates it: 0/0 is NaN, x/0 is +-Infinity.
Rat(n, d) ==
  IF d = 0
  THEN IF n = 0 THEN NaN ELSE IF n > 0 THEN PInf ELSE NInf
  ELSE LET g == GCD(Abs(n), Abs(d))
           s == IF d < 0 THEN -1 ELSE 1
       IN  [k |-> "num", n |-> s * (n \div g), d |-> s * (d \div g)]

Num(i) == [k |-> "num", n |-> i, d |-> 1]

IsNaN(a) == a.k = "nan"

IsNum(a) == a.k = "num"

RNeg(a) == IF a.k = "nan" THEN NaN ELSE [a EXCEPT !.n = -a.n]

RAdd(a, b) ==
  IF a.k = "nan" \/ b.k = "nan" THEN NaN
  ELSE IF a.k = "inf" /\ b.k = "inf" THEN (IF a.n = b.n THEN a ELSE NaN)
  ELSE IF a.k = "inf" THEN a
  ELSE IF b.k = "inf" THEN b
  ELSE LET g == GCD(a.d, b.d)
       IN  Rat(a.n * (b.d \div g) + b.n * (a.d \div g), (a.d \div g) * b.d)

RSub(a, b) == RAdd(a, RNeg(b))

RMul(a, b) ==
  IF a.k = "nan" \/ b.k = "nan" THEN NaN
  ELSE IF a.k = "inf" \/ b.k = "inf"
       THEN (IF a.n = 0 \/ b.n = 0 THEN NaN
             ELSE IF Sgn(a.n) = Sgn(b.n) THEN PInf ELSE NInf)
  ELSE LET g1 == GCD(Abs(a.n), b.d)
           g2 == GCD(Abs(b.n), a.d)
       IN  Rat((a.n \div g1) * (b.n \div g2), (a.d \div g2) * (b.d \div g1))

RDiv(a, b) ==
  IF a.k = "nan" \/ b.k = "nan" THEN NaN
  ELSE IF a.k = "inf"
       THEN (IF b.k = "inf" THEN NaN
             ELSE IF Sgn(a.n) * (IF b.n < 0 THEN -1 ELSE 1) > 0 THEN PInf ELSE NInf)
  ELSE IF b.k = "inf" THEN Num(0)
  ELSE IF b.n = 0 THEN Rat(a.n, 0)
  ELSE LET g1 == GCD(Abs(a.n), Abs(b.n))
           g2 == GCD(a.d, b.d)
       IN  Rat((a.n \div g1) * (b.d \div g2), (a.d \div g2) * (b.n \div g1))

\* a < b; false when either side is NaN.
RLt(a, b) ==
  IF a.k = "nan" \/ b.k = "nan" THEN FALSE
  ELSE IF a.k = "inf" THEN a.n < 0 /\ ~(b.k = "inf" /\ b.n < 0)
  ELSE IF b.k = "inf" THEN b.n > 0
  ELSE a.n * b.d < b.n * a.d

RGt(a, b) == RLt(b, a)

RLe(a, b) == a.k # "nan" /\ b.k # "nan" /\ ~RLt(b, a)

RAbs(a) == IF a.k = "nan" THEN NaN ELSE [a EXCEPT !.n = Abs(a.n)]

\* Math.min and Math.max of two numbers: NaN when either is NaN.
RMin(a, b) == IF a.k = "nan" \/ b.k = "nan" THEN NaN ELSE IF RLt(b, a) THEN b ELSE a

RMax(a, b) == IF a.k = "nan" \/ b.k = "nan" THEN NaN ELSE IF RLt(a, b) THEN b ELSE a

\* Math.round: the nearest integer, halves toward +Infinity.
RRound(a) == IF a.k = "num" THEN Num((2 * a.n + a.d) \div (2 * a.d)) ELSE a

\* x || 0 on a number: 0 and NaN are falsy.
OrZero(a) == IF a.k = "nan" THEN Num(0) ELSE a

-----------------------------------------------------------------------------
(* IEEE-754 doubles of magnitude below 2, as sign and magnitude in units   *)
(* of 2^-56 held in two limbs: magnitude = hi * 2^28 + lo.  Every double   *)
(* in [2^-4, 2) is a whole number of such units, and a sum of doubles is   *)
(* the exact sum rounded to 53 significant bits, ties to even.             *)

Limb == 2^28

DZero == [s |-> 1, hi |-> 0, lo |-> 0]

DIsZero(a) == a.hi = 0 /\ a.lo = 0

DMagLt(a, b) == a.hi < b.hi \/ (a.hi = b.hi /\ a.lo < b.lo)

\* The units dropped when a magnitude is rounded to 53 significant bits.
DUlp(hi) ==
  IF hi >= 2^28 THEN 16
  ELSE IF hi >= 2^27 THEN 8
  ELSE IF hi >= 2^26 THEN 4
  ELSE IF hi >= 2^25 THEN 2
  ELSE 1

DRound(s, hi, lo) ==
  LET q    == DUlp(hi)
      r    == lo % q
      down == lo - r
      up   == (2 * r > q) \/ (2 * r = q /\ ((lo \div q) % 2 = 1))
      lo2  == IF up THEN down + q ELSE down
  IN  IF lo2 >= Limb
      THEN [s |-> s, hi |-> hi + 1, lo |-> lo2 - Limb]
      ELSE [s |-> s, hi |-> hi, lo |-> lo2]

DAdd(a, b) ==
  IF a.s = b.s
  THEN LET lo == a.lo + b.lo
           c  == IF lo >= Limb THEN 1 ELSE 0
       IN  DRound(a.s, a.hi + b.hi + c, lo - c * Limb)
  ELSE LET big == IF DMagLt(a, b) THEN b ELSE a
           sml == IF DMagLt(a, b) THEN a ELSE b
           br  == IF big.lo < sml.lo THEN 1 ELSE 0
           hi  == big.hi - sml.hi - br
           lo  == big.lo - sml.lo + br * Limb
       IN  IF hi = 0 /\ lo = 0 THEN DZero ELSE DRound(big.s, hi, lo)

DNeg(a) == IF DIsZero(a) THEN a ELSE [a EXCEPT !.s = -a.s]

\* Halving a double is exact (the magnitudes used here are even).
DHalf(a) ==
  [s |-> a.s, hi |-> a.hi \div 2, lo |-> (a.lo + (a.hi % 2) * Limb) \div 2]

DLt(a, b) ==
  IF a.s = b.s
  THEN (IF a.s = 1 THEN DMagLt(a, b) ELSE DMagLt(b, a))
  ELSE a.s = -1 /\ ~(DIsZero(a) /\ DIsZero(b))

\* The doubles nearest to 0.25, 0.2 and 0.15.
D025 == [s |-> 1, hi |-> 67108864, lo |-> 0]

D020 == [s |-> 1, hi |-> 53687091, lo |-> 53687092]

D015 == [s |-> 1, hi |-> 40265318, lo |-> 107374182]

-----------------------------------------------------------------------------
(* Series.  A bar is a record [open, high, low, close, volume] of          *)
(* integers; a series is a sequence of bars, newest first.  JavaScript     *)
(* index i is position i + 1 here.                                         *)

Min2(a, b) == IF a < b THEN a ELSE b

Max2(a, b) == IF a > b THEN a ELSE b

\* Array.prototype.slice(from, to) with 0 <= from: positions from+1 .. min(to, length).
Slice(s, from, to) == SubSeq(s, from + 1, Min2(to, Len(s)))

SliceFrom(s, from) == SubSeq(s, from + 1, Len(s))

\* The array a map() call builds, as a finished sequence of its elements.
Array(f) == SubSeq(f, 1, Len(f))

\* TRUE, once v is evaluated: the state of a loop is evaluated before the
\* iterations that follow use it.
Evaluated(v) == v = v

Closes(data) == Array([i \in 1..Len(data) |-> data[i].close])

Highs(data) == Array([i \in 1..Len(data) |-> data[i].high])

Lows(data) == Array([i \in 1..Len(data) |-> data[i].low])

Volumes(data) == Array([i \in 1..Len(data) |-> data[i].volume])

\* Sums, maxima and minima over the positions lo .. hi.  The values are exact,
\* so the order of the additions does not matter; the range is halved to keep
\* the evaluation shallow.
Mid(lo, hi) == (lo + hi) \div 2

RECURSIVE SumRange(_, _, _)
SumRange(s, lo, hi) ==
  IF lo > hi THEN 0
  ELSE IF lo = hi THEN s[lo]
  ELSE SumRange(s, lo, Mid(lo, hi)) + SumRange(s, Mid(lo, hi) + 1, hi)

SumSeq(s) == SumRange(s, 1, Len(s))

\* sum of i * s[i] over the JavaScript indexes i = lo-1 .. hi-1
RECURSIVE SumXYRange(_, _, _)
SumXYRange(s, lo, hi) ==
  IF lo > hi THEN 0
  ELSE IF lo = hi THEN (lo - 1) * s[lo]
  ELSE SumXYRange(s, lo, Mid(lo, hi)) + SumXYRange(s, Mid(lo, hi) + 1, hi)

SumXYTo(s, k) == SumXYRange(s, 1, k)

RECURSIVE RSumRange(_, _, _)
RSumRange(s, lo, hi) ==
  IF lo > hi THEN Num(0)
  ELSE IF lo = hi THEN s[lo]
  ELSE RAdd(RSumRange(s, lo, Mid(lo, hi)), RSumRange(s, Mid(lo, hi) + 1, hi))

RSumSeq(s) == RSumRange(s, 1, Len(s))

RECURSIVE RMaxRange(_, _, _)
RMaxRange(s, lo, hi) ==
  IF lo > hi THEN NInf
  ELSE IF lo = hi THEN s[lo]
  ELSE RMax(RMaxRange(s, lo, Mid(lo, hi)), RMaxRange(s, Mid(lo, hi) + 1, hi))

RECURSIVE RMinRange(_, _, _)
RMinRange(s, lo, hi) ==
  IF lo > hi THEN PInf
  ELSE IF lo = hi THEN s[lo]
  ELSE RMin(RMinRange(s, lo, Mid(lo, hi)), RMinRange(s, Mid(lo, hi) + 1, hi))

\* Math.max(...xs) and Math.min(...xs) of numbers: -Infinity and +Infinity on
\* an empty list.
RMaxSeq(s) == RMaxRange(s, 1, Len(s))

RMinSeq(s) == RMinRange(s, 1, Len(s))

\* The same of integers.
MathMax(s) == RMaxSeq([i \in 1..Len(s) |-> Num(s[i])])

MathMin(s) == RMinSeq([i \in 1..Len(s) |-> Num(s[i])])

-----------------------------------------------------------------------------
(* PatternRecognitionService (the class that reports patternsFound and a   *)
(* dominantPattern, which analyzeBreakout reads)                           *)

minPatternBars == 5

maxPatternBars == 30

\* this.priceDeviation = 0.02
priceDeviation == Rat(2, 100)

NotDetected == [detected |-> FALSE]

SumIdx(n) == (n * (n - 1)) \div 2

SumIdx2(n) == ((n - 1) * n * (2 * n - 1)) \div 6

calculateTrendlineSlope(prices) ==
  LET n     == Len(prices)
      sumX  == SumIdx(n)
      sumY  == SumSeq(prices)
      sumXY == SumXYTo(prices, n)
      sumX2 == SumIdx2(n)
  IN  Rat(n * sumXY - sumX * sumY, n * sumX2 - sumX * sumX)

\* returns[i] = (prices[i] - prices[i-1]) / prices[i-1], i = 1 .. length-1
Returns(prices) ==
  [i \in 1..(Len(prices) - 1) |->
     RDiv(Num(prices[i + 1] - prices[i]), Num(prices[i]))]

calculateTrendStrength(prices) ==
  LET returns == Returns(prices)
      positiveReturns == Cardinality({i \in 1..Len(returns) : RGt(returns[i], Num(0))})
  IN  Rat(positiveReturns, Len(returns))

FloorTenths(n, tenths) == (n * tenths) \div 10

identifyUptrend(data) ==
  LET prices   == Closes(data)
      slope    == calculateTrendlineSlope(prices)
      strength == calculateTrendStrength(prices)
  IN  [isValid  |-> RGt(slope, Num(0)) /\ RGt(strength, Rat(7, 10)),
       strength |-> strength,
       length   |-> FloorTenths(Len(data), 3)]

identifyDowntrend(data) ==
  LET prices   == Closes(data)
      slope    == calculateTrendlineSlope(prices)
      strength == calculateTrendStrength(prices)
  IN  [isValid  |-> RLt(slope, Num(0)) /\ RGt(strength, Rat(7, 10)),
       strength |-> RAbs(strength),
       length   |-> FloorTenths(Len(data), 3)]

identifyConsolidation(data) ==
  LET prices     == Closes(data)
      high       == MathMax(prices)
      low        == MathMin(prices)
      priceRange == RDiv(RSub(high, low), low)
  IN  [isValid |-> RLe(priceRange, priceDeviation),
       quality |-> RSub(Num(1), RDiv(priceRange, priceDeviation)),
       length  |-> FloorTenths(Len(data), 7)]

identifyStrongMove(data) ==
  LET total == RSumSeq(Returns(Closes(data)))
  IN  [isValid   |-> RGt(RAbs(total), Rat(1, 10)),
       direction |-> IF RGt(total, Num(0)) THEN "up" ELSE "down",
       strength  |-> RAbs(total),
       length    |-> FloorTenths(Len(data), 3)]

identifyConvergence(data) ==
  LET highTrend == calculateTrendlineSlope(Highs(data))
      lowTrend  == calculateTrendlineSlope(Lows(data))
      convergenceRate == RAbs(RSub(highTrend, lowTrend))
  IN  [isValid |-> RLt(highTrend, Num(0)) /\ RGt(lowTrend, Num(0)),
       quality |-> RMin(Num(1), RDiv(convergenceRate, Rat(1, 100))),
       length  |-> Len(data)]

checkVolumeDeclining(data) == RLt(calculateTrendlineSlope(Volumes(data)), Num(0))

\* The weight of a factor, in tenths; 0 for a factor the table does not list.
confidenceWeights ==
  [trendStrength |-> 3, consolidationQuality |-> 3, volumePattern |-> 2,
   convergenceQuality |-> 3, shoulderSymmetry |-> 4, necklineQuality |-> 3,
   priceAction |-> 2]

WeightOf(factor) ==
  IF factor \in DOMAIN confidenceWeights THEN confidenceWeights[factor] ELSE 0

RECURSIVE BlendTo(_, _)
BlendTo(factors, k) ==
  IF k = 0 THEN [weightedSum |-> Num(0), totalWeight |-> Num(0)]
  ELSE LET acc == BlendTo(factors, k - 1)
           w   == WeightOf(factors[k][1])
       IN  IF w # 0
           THEN [weightedSum |-> RAdd(acc.weightedSum, RMul(factors[k][2], Rat(w, 10))),
                 totalWeight |-> RAdd(acc.totalWeight, Rat(w, 10))]
           ELSE acc

\* factors: the entries <<name, value>> of the object literal, in order.
calculatePatternConfidence(factors) ==
  LET b == BlendTo(factors, Len(factors))
  IN  RMul(RDiv(b.weightedSum, b.totalWeight), Num(100))

Lookback(data) == Slice(data, 0, Min2(maxPatternBars, Len(data)))

detectBullFlag(data) ==
  LET priceData == Lookback(data)
      uptrend   == identifyUptrend(priceData)
      rest      == SliceFrom(priceData, uptrend.length)
      consolidation == identifyConsolidation(rest)
  IN  IF ~uptrend.isValid THEN NotDetected
      ELSE IF ~consolidation.isValid THEN NotDetected
      ELSE [detected   |-> TRUE,
            confidence |-> calculatePatternConfidence(
                             << <<"uptrendStrength", uptrend.strength>>,
                                <<"consolidationQuality", consolidation.quality>>,
                                <<"volumePattern",
                                  IF checkVolumeDeclining(rest) THEN Num(1) ELSE Rat(1, 2)>> >>),
            startIndex |-> 0,
            endIndex   |-> uptrend.length + consolidation.length,
            type       |-> "BULL_FLAG"]

detectBearFlag(data) ==
  LET priceData == Lookback(data)
      downtrend == identifyDowntrend(priceData)
      rest      == SliceFrom(priceData, downtrend.length)
      consolidation == identifyConsolidation(rest)
  IN  IF ~downtrend.isValid THEN NotDetected
      ELSE IF ~consolidation.isValid THEN NotDetected
      ELSE [detected   |-> TRUE,
            confidence |-> calculatePatternConfidence(
                             << <<"trendStrength", downtrend.strength>>,
                                <<"consolidationQuality", consolidation.quality>>,
                                <<"volumePattern",
                                  IF checkVolumeDeclining(rest) THEN Num(1) ELSE Rat(1, 2)>> >>),
            startIndex |-> 0,
            endIndex   |-> downtrend.length + consolidation.length,
            type       |-> "BEAR_FLAG"]

detectPennant(data) ==
  LET priceData == Lookback(data)
      trend     == identifyStrongMove(priceData)
      rest      == SliceFrom(priceData, trend.length)
      convergence == identifyConvergence(rest)
  IN  IF ~trend.isValid THEN NotDetected
      ELSE IF ~convergence.isValid THEN NotDetected
      ELSE [detected   |-> TRUE,
            confidence |-> calculatePatternConfidence(
                             << <<"trendStrength", trend.strength>>,
                                <<"convergenceQuality", convergence.quality>>,
                                <<"volumePattern",
                                  IF checkVolumeDeclining(rest) THEN Num(1) ELSE Rat(1, 2)>> >>),
            startIndex |-> 0,
            endIndex   |-> trend.length + convergence.length,
            type       |-> IF trend.direction = "up" THEN "BULL_PENNANT" ELSE "BEAR_PENNANT"]

RSq(a) == RMul(a, a)

calculateTrendline(prices) ==
  LET n     == Len(prices)
      sumX  == SumIdx(n)
      sumY  == SumSeq(prices)
      sumXY == SumXYTo(prices, n)
      sumX2 == SumIdx2(n)
      slope == Rat(n * sumXY - sumX * sumY, n * sumX2 - sumX * sumX)
      intercept == RDiv(RSub(Num(sumY), RMul(slope, Num(sumX))), Num(n))
      yMean == Rat(sumY, n)
      ssTotal == RSumSeq([i \in 1..n |-> RSq(RSub(Num(prices[i]), yMean))])
      ssResidual ==
        RSumSeq([i \in 1..n |->
                   RSq(RSub(Num(prices[i]), RAdd(RMul(slope, Num(i - 1)), intercept)))])
  IN  [slope     |-> slope,
       intercept |-> intercept,
       r2        |-> RSub(Num(1), RDiv(ssResidual, ssTotal))]

\* null is the string "null".
determineTriangleType(upperSlope, lowerSlope) ==
  IF RLt(RAbs(RAdd(upperSlope, lowerSlope)), Rat(1, 1000)) THEN "SYMMETRIC_TRIANGLE"
  ELSE IF RLt(RAbs(upperSlope), Rat(1, 1000)) /\ RGt(lowerSlope, Num(0))
       THEN "ASCENDING_TRIANGLE"
  ELSE IF RLt(RAbs(lowerSlope), Rat(1, 1000)) /\ RLt(upperSlope, Num(0))
       THEN "DESCENDING_TRIANGLE"
  ELSE IF RGt(upperSlope, Num(0)) /\ RLt(lowerSlope, Num(0)) THEN "EXPANDING_TRIANGLE"
  ELSE "null"

findConvergencePoint(upperTrendline, lowerTrendline) ==
  LET x == RDiv(RSub(lowerTrendline.intercept, upperTrendline.intercept),
                RSub(upperTrendline.slope, lowerTrendline.slope))
      y == RAdd(RMul(upperTrendline.slope, x), upperTrendline.intercept)
      span == Num(maxPatternBars * 2)
  IN  [isValid |-> RGt(x, Num(0)) /\ RLt(x, span),
       quality |-> RMul(RDiv(RAdd(upperTrendline.r2, lowerTrendline.r2), Num(2)),
                        RSub(Num(1), RMin(RDiv(x, span), Num(1)))),
       x       |-> x,
       y       |-> y,
       upperR2 |-> upperTrendline.r2,
       lowerR2 |-> lowerTrendline.r2]

calculateVolatility(prices) ==
  LET returns   == [i \in 1..(Len(prices) - 1) |->
                      RAbs(RDiv(Num(prices[i + 1] - prices[i]), Num(prices[i])))]
      avgReturn == RDiv(RSumSeq(returns), Num(Len(returns)))
  IN  RMin(Num(1), RDiv(avgReturn, Rat(2, 100)))

\* prices.slice(-shortPeriod) is the whole array when shortPeriod is 0.
calculateMomentum(prices) ==
  LET shortPeriod == Len(prices) \div 3
      recent      == Slice(prices, 0, shortPeriod)
      old         == IF shortPeriod = 0 THEN prices
                     ELSE SliceFrom(prices, Len(prices) - shortPeriod)
      recentAvg   == Rat(SumSeq(recent), shortPeriod)
      oldAvg      == Rat(SumSeq(old), shortPeriod)
  IN  RMax(Num(0), RMin(Num(1), RAdd(RDiv(RSub(recentAvg, oldAvg), oldAvg), Rat(1, 2))))

assessPriceAction(data) ==
  LET prices     == Closes(data)
      volatility == calculateVolatility(prices)
      momentum   == calculateMomentum(prices)
  IN  RAdd(RMul(RSub(Num(1), volatility), Rat(1, 2)), RMul(momentum, Rat(1, 2)))

detectTriangle(data) ==
  LET lookback  == Min2(maxPatternBars, Len(data))
      priceData == Slice(data, 0, lookback)
      upperTrendline == calculateTrendline(Highs(priceData))
      lowerTrendline == calculateTrendline(Lows(priceData))
      type == determineTriangleType(upperTrendline.slope, lowerTrendline.slope)
      convergencePoint == findConvergencePoint(upperTrendline, lowerTrendline)
  IN  IF type = "null" THEN NotDetected
      ELSE IF ~convergencePoint.isValid THEN NotDetected
      ELSE [detected   |-> TRUE,
            confidence |-> calculatePatternConfidence(
                             << <<"trendlineQuality",
                                  RDiv(RAdd(upperTrendline.r2, lowerTrendline.r2), Num(2))>>,
                                <<"convergenceQuality", convergencePoint.quality>>,
                                <<"priceAction", assessPriceAction(priceData)>> >>),
            type       |-> type,
            startIndex |-> 0,
            endIndex   |-> lookback - 1,
            convergencePoint |-> convergencePoint]

\* The iterations i = lo .. hi of the loop of findSignificantPeaks, in that order.
RECURSIVE PeaksFrom(_, _, _, _, _)
PeaksFrom(prices, minPeakDistance, lo, hi, peaks) ==
  IF lo > hi THEN peaks
  ELSE IF lo = hi
       THEN IF /\ prices[lo + 1] > prices[lo]
               /\ prices[lo + 1] > prices[lo + 2]
               /\ (Len(peaks) = 0 \/ lo - peaks[Len(peaks)].index > minPeakDistance)
            THEN Append(peaks, [index |-> lo, price |-> prices[lo + 1]])
            ELSE peaks
  ELSE LET found == PeaksFrom(prices, minPeakDistance, lo, Mid(lo, hi), peaks)
       IN  IF Evaluated(found)
           THEN PeaksFrom(prices, minPeakDistance, Mid(lo, hi) + 1, hi, found)
           ELSE found

findSignificantPeaks(data) ==
  PeaksFrom(Highs(data), Len(data) \div 10, 1, Len(data) - 2, <<>>)

\* [...peaks].sort((a, b) => b.price - a.price): a stable sort, highest first.
RECURSIVE InsertByPrice(_, _)
InsertByPrice(sorted, x) ==
  IF sorted = <<>> THEN <<x>>
  ELSE LET last == sorted[Len(sorted)]
       IN  IF x.price - last.price > 0
           THEN Append(InsertByPrice(SubSeq(sorted, 1, Len(sorted) - 1), x), last)
           ELSE Append(sorted, x)

RECURSIVE SortByPriceTo(_, _)
SortByPriceTo(peaks, k) ==
  IF k = 0 THEN <<>> ELSE InsertByPrice(SortByPriceTo(peaks, k - 1), peaks[k])

\* The lowest low at the JavaScript indexes peakIndex .. i, first occurrence.
RECURSIVE TroughUpTo(_, _, _)
TroughUpTo(data, peakIndex, i) ==
  IF i <= peakIndex THEN peakIndex
  ELSE LET minIndex == TroughUpTo(data, peakIndex, i - 1)
       IN  IF data[i + 1].low < data[minIndex + 1].low THEN i ELSE minIndex

findTrough(data, peakIndex) ==
  TroughUpTo(data, peakIndex, Min2(Len(data), peakIndex + 10) - 1)

calculateNeckline(data, shoulder1Index, shoulder2Index) ==
  LET trough1 == findTrough(data, shoulder1Index)
      trough2 == findTrough(data, shoulder2Index)
  IN  calculateTrendline(<<data[trough1 + 1].low, data[trough2 + 1].low>>)

validateVolume(data, patternIndices) ==
  LET volumes == [i \in 1..Len(patternIndices) |-> data[patternIndices[i] + 1].volume]
  IN  volumes[1] > volumes[2] /\ volumes[2] > volumes[3]

validateHeadAndShoulders(peaks, data) ==
  IF Len(peaks) < 3 THEN [isValid |-> FALSE] ELSE
  LET sortedPeaks == SortByPriceTo(peaks, Len(peaks))
      head        == sortedPeaks[1]
      shoulder1   == sortedPeaks[2]
      shoulder2   == sortedPeaks[3]
      shoulderDiff == Abs(shoulder1.price - shoulder2.price)
      shoulderToHeadRatio == Rat(Abs(shoulder1.price - head.price), head.price)
      symmetry == RSub(Num(1), Rat(shoulderDiff, head.price))
      neckline == calculateNeckline(data, shoulder1.index, shoulder2.index)
  IN  [isValid  |-> /\ RGt(shoulderToHeadRatio, Rat(1, 10))
                    /\ RGt(symmetry, Rat(8, 10))
                    /\ RGt(neckline.r2, Rat(7, 10)),
       symmetry |-> symmetry,
       necklineQuality |-> neckline.r2,
       volumePattern   |-> validateVolume(data, <<shoulder1.index, head.index, shoulder2.index>>),
       startIndex |-> Min2(shoulder1.index, shoulder2.index),
       endIndex   |-> Max2(shoulder1.index, shoulder2.index),
       neckline   |-> neckline]

\* A boolean used as a number: true is 1, false is 0.
ToNumber(b) == IF b THEN Num(1) ELSE Num(0)

detectHeadAndShoulders(data) ==
  LET priceData == Lookback(data)
      peaks     == findSignificantPeaks(priceData)
      formation == validateHeadAndShoulders(peaks, priceData)
  IN  IF Len(peaks) < 3 THEN NotDetected
      ELSE IF ~formation.isValid THEN NotDetected
      ELSE [detected   |-> TRUE,
            confidence |-> calculatePatternConfidence(
                             << <<"shoulderSymmetry", formation.symmetry>>,
                                <<"necklineQuality", formation.necklineQuality>>,
                                <<"volumePattern", ToNumber(formation.volumePattern)>> >>),
            type       |-> "HEAD_AND_SHOULDERS",
            startIndex |-> formation.startIndex,
            endIndex   |-> formation.endIndex,
            neckline   |-> formation.neckline]

\* The keys of the patterns object, in insertion order.
patternOrder == <<"bullFlag", "bearFlag", "pennant", "triangle", "headAndShoulders">>

NullPattern == [name |-> "null", confidence |-> NaN, type |-> "null"]

\* .filter(detected).map({name, confidence, type}) over the first k keys.
RECURSIVE ActiveTo(_, _)
ActiveTo(patterns, k) ==
  IF k = 0 THEN <<>>
  ELSE LET name    == patternOrder[k]
           pattern == patterns[name]
       IN  IF pattern.detected
           THEN Append(ActiveTo(patterns, k - 1),
                       [name |-> name, confidence |-> pattern.confidence,
                        type |-> pattern.type])
           ELSE ActiveTo(patterns, k - 1)

\* An insertion that also moves in front of a predecessor of equal confidence.
RECURSIVE InsertByConfidence_LastWins(_, _)
InsertByConfidence_LastWins(sorted, x) ==
  IF sorted = <<>> THEN <<x>>
  ELSE LET last == sorted[Len(sorted)]
       IN  IF RLe(Num(0), RSub(x.confidence, last.confidence))
           THEN Append(InsertByConfidence_LastWins(SubSeq(sorted, 1, Len(sorted) - 1), x),
                       last)
           ELSE Append(sorted, x)

\* .sort((a, b) => b.confidence - a.confidence): stable; an element moves in
\* front of its predecessor when the comparator is positive, and a NaN
\* comparison counts as 0.
RECURSIVE InsertByConfidence(_, _)
InsertByConfidence(sorted, x) ==
  IF sorted = <<>> THEN <<x>>
  ELSE LET last == sorted[Len(sorted)]
       IN  IF RGt(RSub(x.confidence, last.confidence), Num(0))
           THEN Append(InsertByConfidence(SubSeq(sorted, 1, Len(sorted) - 1), x), last)
           ELSE Append(sorted, x)

RECURSIVE SortByConfidenceTo(_, _)
SortByConfidenceTo(active, k) ==
  IF k = 0 THEN <<>>
  ELSE InsertByConfidence(SortByConfidenceTo(active, k - 1), active[k])

SortByConfidence(active) == SortByConfidenceTo(active, Len(active))

SummaryOf(activePatterns) ==
  [patternsFound   |-> Len(activePatterns) > 0,
   dominantPattern |-> IF Len(activePatterns) > 0 THEN activePatterns[1]
                       ELSE NullPattern,
   allPatterns     |-> activePatterns]

generatePatternSummary(patterns) ==
  SummaryOf(SortByConfidence(ActiveTo(patterns, Len(patternOrder))))

PatternAnalysis(patterns) ==
  [patterns |-> patterns, summary |-> generatePatternSummary(patterns)]

analyzePatterns(data) ==
  PatternAnalysis([bullFlag |-> detectBullFlag(data),
                   bearFlag |-> detectBearFlag(data),
                   pennant  |-> detectPennant(data),
                   triangle |-> detectTriangle(data),
                   headAndShoulders |-> detectHeadAndShoulders(data)])

\* The generatePatternSummary of the class that reports a primaryPattern:
\* detectedPatterns.reduce((prev, curr) => curr.confidence > prev.confidence
\* ? curr : prev) over the first k keys; "null" while none is detected.
RECURSIVE StrongestTo(_, _)
StrongestTo(patterns, k) ==
  IF k = 0 THEN "null"
  ELSE LET prev == StrongestTo(patterns, k - 1)
           curr == patternOrder[k]
       IN  IF ~patterns[curr].detected THEN prev
           ELSE IF prev = "null" THEN curr
           ELSE IF RGt(patterns[curr].confidence, patterns[prev].confidence) THEN curr
           ELSE prev

generatePatternSummaryPrimary(patterns) ==
  LET strongestPattern == StrongestTo(patterns, Len(patternOrder))
  IN  IF strongestPattern = "null"
      THEN [detected |-> FALSE]
      ELSE [detected       |-> TRUE,
            primaryPattern |-> strongestPattern,
            confidence     |-> patterns[strongestPattern].confidence]

-----------------------------------------------------------------------------
(* TechnicalAnalysis.findNearestFibonacciLevel and the level table         *)

\* this.fibLevels, in thousandths.
fibLevels == <<236, 382, 500, 618, 786>>

\* levels[level] = high - diff * level, in insertion order of the keys.
FibonacciLevelTable(high, low) ==
  [i \in 1..Len(fibLevels) |->
     RSub(high, RMul(RSub(high, low), Rat(fibLevels[i], 1000)))]

RECURSIVE NearestFrom(_, _, _, _)
NearestFrom(currentPrice, levels, i, nearest) ==
  IF i > Len(levels) THEN nearest
  ELSE LET value    == levels[i]
           distance == RAbs(RSub(currentPrice, value))
       IN  IF RLt(distance, nearest.distance)
           THEN NearestFrom(currentPrice, levels, i + 1,
                  [level |-> i, price |-> value, distance |-> distance,
                   type |-> IF RGt(currentPrice, value) THEN "support" ELSE "resistance"])
           ELSE NearestFrom(currentPrice, levels, i + 1, nearest)

\* level 0 and type "null" stand for the initial {level: null, type: null}.
findNearestFibonacciLevel(currentPrice, levels) ==
  NearestFrom(currentPrice, levels, 1,
    [level |-> 0, price |-> NaN, distance |-> PInf, type |-> "null"])

-----------------------------------------------------------------------------
(* TechnicalAnalysis.analyzeBreakout, the fusion of the indicator votes    *)

Threw(name) == [threw |-> TRUE, error |-> name]

Returned(v) == [threw |-> FALSE, value |-> v]

bbSignalOf(currentPrice, bollingerBands) ==
  IF RGt(currentPrice, bollingerBands.upper) THEN "LONG"
  ELSE IF RLt(currentPrice, bollingerBands.lower) THEN "SHORT"
  ELSE "NEUTRAL"

\* A momentum vote with no NEUTRAL: a histogram of 0 votes SHORT.
macdSignalOf_TwoWay(macd) ==
  IF RGt(macd.histogram, Num(0)) THEN "LONG" ELSE "SHORT"

macdSignalOf(macd) ==
  IF RGt(macd.histogram, Num(0)) THEN "LONG"
  ELSE IF RLt(macd.histogram, Num(0)) THEN "SHORT"
  ELSE "NEUTRAL"

volumeSignalOf(twentyDay) ==
  IF RGt(twentyDay, Num(150)) THEN "STRONG"
  ELSE IF RGt(twentyDay, Num(120)) THEN "MODERATE"
  ELSE "WEAK"

\* The switch on dominantPattern.type; a type with no case leaves NEUTRAL.
patternSignalOf(summary, movingAverages) ==
  IF ~summary.patternsFound THEN "NEUTRAL"
  ELSE LET t == summary.dominantPattern.type
       IN  IF t \in {"BULL_FLAG", "BULL_PENNANT", "ASCENDING_TRIANGLE"} THEN "LONG"
           ELSE IF t \in {"BEAR_FLAG", "BEAR_PENNANT", "DESCENDING_TRIANGLE",
                          "HEAD_AND_SHOULDERS"} THEN "SHORT"
           ELSE IF t = "SYMMETRIC_TRIANGLE"
                THEN (IF movingAverages.trend = "BULLISH" THEN "LONG" ELSE "SHORT")
           ELSE "NEUTRAL"

patternConfidenceOf(summary) ==
  IF summary.patternsFound THEN summary.dominantPattern.confidence ELSE Num(0)

volatilitySignalOf(atr, currentPrice) ==
  LET volatility == RMul(RDiv(atr.value, currentPrice), Num(100))
  IN  IF RGt(volatility, Num(3)) THEN "HIGH"
      ELSE IF RGt(volatility, Rat(3, 2)) THEN "MODERATE"
      ELSE "LOW"

\* The numeric votes, each doubled so that the volume vote 0.5 is the integer 1.
signals2(bbSignal, macdSignal, volumeSignal, patternSignal, fibonacciSignal) ==
  [technical |-> IF bbSignal = "LONG" THEN 2 ELSE IF bbSignal = "SHORT" THEN -2 ELSE 0,
   momentum  |-> IF macdSignal = "LONG" THEN 2 ELSE IF macdSignal = "SHORT" THEN -2 ELSE 0,
   volume    |-> IF volumeSignal = "STRONG" THEN 2 ELSE IF volumeSignal = "WEAK" THEN 0 ELSE 1,
   pattern   |-> IF patternSignal = "LONG" THEN 2 ELSE IF patternSignal = "SHORT" THEN -2 ELSE 0,
   fibonacci |-> IF fibonacciSignal = "LONG" THEN 2 ELSE -2]

\* The weight table, in hundredths, and as the doubles the program holds.
weights == [technical |-> 25, momentum |-> 20, volume |-> 15, pattern |-> 25, fibonacci |-> 15]

weightsDouble == [technical |-> D025, momentum |-> D020, volume |-> D015,
                  pattern |-> D025, fibonacci |-> D015]

\* Object.entries(signals): the order in which the loop adds the products.
signalOrder == <<"technical", "momentum", "volume", "pattern", "fibonacci">>

\* value * weights[signal] in doubles: exact for the votes -1, 0, 0.5 and 1.
DProduct(v2, w) ==
  IF v2 = 2 THEN w ELSE IF v2 = -2 THEN DNeg(w) ELSE IF v2 = 1 THEN DHalf(w) ELSE DZero

RECURSIVE weightedSumDouble(_, _, _)
weightedSumDouble(sig, i, acc) ==
  IF i > Len(signalOrder) THEN acc
  ELSE weightedSumDouble(sig, i + 1,
         DAdd(acc, DProduct(sig[signalOrder[i]], weightsDouble[signalOrder[i]])))

\* The same sum over the reals: S = 0.25 t + 0.20 m + 0.15 v + 0.25 p + 0.15 f.
weightedSumExact(sig) ==
  Rat(sig.technical * weights.technical + sig.momentum * weights.momentum
        + sig.volume * weights.volume + sig.pattern * weights.pattern
        + sig.fibonacci * weights.fibonacci, 200)

\* weightedSum > 0.2 ? LONG : weightedSum < -0.2 ? SHORT : NEUTRAL, on doubles.
directionOf(weightedSum) ==
  IF DLt(D020, weightedSum) THEN "LONG"
  ELSE IF DLt(weightedSum, DNeg(D020)) THEN "SHORT"
  ELSE "NEUTRAL"

\* Math.min(95, Math.abs(weightedSum) * 100); the rounding error of the double
\* sum (below 1e-13) is left out of the probability.
probabilityOf(S) == RMin(Num(95), RMul(RAbs(S), Num(100)))

\* A fusion that ignores the pattern confidence.
confidenceAdjustmentOf_Unscaled(patternConfidence) == Num(0)

confidenceAdjustmentOf(patternConfidence) ==
  IF RGt(patternConfidence, Num(0))
  THEN RDiv(RSub(patternConfidence, Num(50)), Num(100))
  ELSE Num(0)

analyzeBreakout(data0, ind) ==
  IF ~ind.volume.ratiosDef \/ ~ind.patterns.def \/ ~ind.atr.def
       \/ ~ind.mfi.def \/ ~ind.fibonacci.def
  THEN Threw("TypeError")
  ELSE
    LET currentPrice    == data0.close
        bbSignal        == bbSignalOf(currentPrice, ind.bollingerBands)
        macdSignal      == macdSignalOf(ind.macd)
        volumeSignal    == volumeSignalOf(ind.volume.twentyDay)
        patternSignal   == patternSignalOf(ind.patterns.summary, ind.movingAverages)
        patternConfidence == patternConfidenceOf(ind.patterns.summary)
        nearestFibLevel == findNearestFibonacciLevel(currentPrice, ind.fibonacci.levels)
        fibonacciSignal == IF nearestFibLevel.type = "resistance" THEN "SHORT" ELSE "LONG"
        sig             == signals2(bbSignal, macdSignal, volumeSignal, patternSignal,
                                    fibonacciSignal)
        weightedSum     == weightedSumDouble(sig, 1, DZero)
        probability     == probabilityOf(weightedSumExact(sig))
        adjusted        == RMul(probability,
                             RAdd(Num(1), confidenceAdjustmentOf(patternConfidence)))
    IN  Returned(
          [direction   |-> directionOf(weightedSum),
           probability |-> RMax(Num(5), RMin(Num(95), adjusted)),
           confidence  |-> RRound(adjusted),
           signals     |-> [bollinger |-> bbSignal, macd |-> macdSignal,
                            volume |-> volumeSignal, pattern |-> patternSignal,
                            volatility |-> volatilitySignalOf(ind.atr, currentPrice),
                            institutional |-> ind.mfi.institutional_activity,
                            fibonacci |-> fibonacciSignal]])

-----------------------------------------------------------------------------
(* The earlier analyzeBreakout of src/utils/TechnicalAnalysis.js, which    *)
(* reads bollingerBands, volume.current_vs_average, macd.trend and         *)
(* movingAverages.trend only, and is the one that returns a timeframe.     *)

analyzeBreakoutSimple(data0, ind) ==
  LET currentPrice  == data0.close
      bbSignal      == bbSignalOf(currentPrice, ind.bollingerBands)
      volumeSignal  == IF RGt(ind.volume.current_vs_average, Num(150)) THEN 2
                       ELSE IF RGt(ind.volume.current_vs_average, Num(120)) THEN 1
                       ELSE 0
      trendStrength == (IF ind.macd.trend = "BULLISH" THEN 1 ELSE -1)
                         + (IF ind.movingAverages.trend = "BULLISH" THEN 1 ELSE -1)
      direction     == IF bbSignal # "NEUTRAL" THEN bbSignal
                       ELSE IF trendStrength > 0 THEN "LONG"
                       ELSE IF trendStrength < 0 THEN "SHORT"
                       ELSE "NEUTRAL"
      raw           == 50 + volumeSignal * 10 + Abs(trendStrength) * 15
      probability   == IF raw > 100 THEN 100 ELSE IF raw < 0 THEN 0 ELSE raw
  IN  Returned(
        [direction   |-> direction,
         probability |-> Num(probability),
         confidence  |-> Num(probability),
         timeframe   |-> IF volumeSignal > 1 THEN "SHORT"
                         ELSE IF trendStrength # 0 THEN "MEDIUM"
                         ELSE "LONG"])

-----------------------------------------------------------------------------
(* TechnicalAnalysis: the indicators analyze() computes                    *)

rsiPeriod == 14

macdFast == 12

macdSlow == 26

\* this.macdSignal
macdSignalPeriod == 9

bbPeriod == 20

bbStdDev == 2

atrPeriod == 14

mfiPeriod == 14

\* analyze() needs this many bars.
minBars == 50

\* s[i] at the JavaScript index i - 1; undefined (NaN in arithmetic) past the end.
At(s, i) == IF i \in 1..Len(s) THEN s[i] ELSE NaN

ISqrt(n) == CHOOSE r \in 0..n : r * r = n

\* Math.sqrt on the square of a rational.
RSqrt(a) ==
  IF a.k = "nan" THEN NaN
  ELSE IF a.k = "inf" THEN (IF a.n > 0 THEN PInf ELSE NaN)
  ELSE IF a.n < 0 THEN NaN
  ELSE Rat(ISqrt(a.n), ISqrt(a.d))

calculateRSI(data) ==
  LET difference(i) == data[i + 1].close - data[i].close
      steps   == 1..(rsiPeriod - 1)
      gains   == SumSeq([i \in steps |-> IF difference(i) >= 0 THEN difference(i) ELSE 0])
      losses  == SumSeq([i \in steps |-> IF difference(i) >= 0 THEN 0 ELSE -difference(i)])
      averageGain == Rat(gains, rsiPeriod)
      averageLoss == Rat(losses, rsiPeriod)
  IN  IF averageLoss = Num(0) THEN Num(100)
      ELSE RSub(Num(100),
                RDiv(Num(100), RAdd(Num(1), RDiv(averageGain, averageLoss))))

calculateSMA(prices, period) == Rat(SumSeq(Slice(prices, 0, period)), period)

\* The iterations i = hi, hi - 1, .. lo of
\*   for (i = period - 1; i >= 0; i--) ema = (prices[i] - ema) * multiplier + ema
\* in that order (the range is halved to keep the evaluation shallow).
RECURSIVE EmaDown(_, _, _, _, _)
EmaDown(prices, multiplier, hi, lo, ema) ==
  IF hi < lo THEN ema
  ELSE IF hi = lo
       THEN RAdd(RMul(RSub(Num(prices[hi + 1]), ema), multiplier), ema)
  ELSE LET older == EmaDown(prices, multiplier, hi, Mid(lo, hi) + 1, ema)
       IN  IF Evaluated(older)
           THEN EmaDown(prices, multiplier, Mid(lo, hi), lo, older)
           ELSE older

\* period is NaN when the argument is not passed: the multiplier and the
\* average over the whole array are NaN and the loop does not run.
calculateEMA(data, period) ==
  IF IsNaN(period) THEN NaN
  ELSE LET prices == Closes(data)
       IN  EmaDown(prices, Rat(2, period.n + 1), period.n - 1, 0,
                   calculateSMA(prices, period.n))

\* The iterations i = lo .. hi of the loop of calculateEMAValues, in that
\* order; emaValues is newest first (unshift).
RECURSIVE EmaValuesFrom(_, _, _, _, _)
EmaValuesFrom(prices, multiplier, lo, hi, emaValues) ==
  IF lo > hi THEN emaValues
  ELSE IF lo = hi
       THEN LET ema == emaValues[1]
            IN  <<RAdd(RMul(RSub(prices[lo + 1], ema), multiplier), ema)>> \o emaValues
  ELSE LET older == EmaValuesFrom(prices, multiplier, lo, Mid(lo, hi), emaValues)
       IN  IF Evaluated(older)
           THEN EmaValuesFrom(prices, multiplier, Mid(lo, hi) + 1, hi, older)
           ELSE older

calculateEMAValues(prices, period) ==
  EmaValuesFrom(prices, Rat(2, period + 1), period, Len(prices) - 1,
                <<RDiv(RSumSeq(Slice(prices, 0, period)), Num(period))>>)

calculateMACD(data) ==
  LET prices     == Array([i \in 1..Len(data) |-> Num(data[i].close)])
      fastEMA    == calculateEMAValues(prices, macdFast)
      slowEMA    == calculateEMAValues(prices, macdSlow)
      macdLine   == Array([i \in 1..Len(fastEMA) |-> RSub(fastEMA[i], At(slowEMA, i))])
      signalLine == calculateEMAValues(macdLine, macdSignalPeriod)
      histogram  == Array([i \in 1..Len(macdLine) |->
                             RSub(macdLine[i], At(signalLine, i))])
      currentMACD      == OrZero(At(macdLine, 1))
      currentSignal    == OrZero(At(signalLine, 1))
      currentHistogram == OrZero(At(histogram, 1))
  IN  [value     |-> currentMACD,
       signal    |-> currentSignal,
       histogram |-> currentHistogram,
       trend     |-> IF RGt(currentMACD, currentSignal) THEN "BULLISH" ELSE "BEARISH",
       strength  |-> IF RGt(RAbs(currentHistogram), RAbs(OrZero(At(histogram, 2))))
                     THEN "INCREASING" ELSE "DECREASING"]

\* BollingerBands.calculate: bands[k] is pushed for the window ending at the
\* JavaScript index i = period - 1 + k; its squeeze metrics average the
\* bandwidths of the (at most 20) bands pushed before it.
BandWindow(prices, period, i) == Slice(prices, i - period + 1, i + 1)

BandSMA(window) == Rat(SumSeq(window), Len(window))

BandStdDev(window) ==
  LET sma == BandSMA(window)
  IN  RSqrt(RDiv(RSumSeq([j \in 1..Len(window) |-> RSq(RSub(Num(window[j]), sma))]),
                 Num(Len(window))))

Bandwidth(window, multiplier) ==
  RMul(RDiv(RMul(RMul(Num(multiplier), BandStdDev(window)), Num(2)), BandSMA(window)),
       Num(100))

\* The same with the squeeze below 0.3 times the average.
SqueezeOf_BelowThreeTenths(bandwidth, averageBandwidth) ==
  [isSqueezing |-> RLt(bandwidth, RMul(averageBandwidth, Rat(3, 10))),
   bandwidthPercentile |-> RMul(RDiv(bandwidth, averageBandwidth), Num(100)),
   averageBandwidth |-> averageBandwidth,
   currentBandwidth |-> bandwidth]

\* The squeeze metrics of a band: averageBandwidth is over the (at most 20)
\* bands pushed before it, or its own bandwidth when there is none.
SqueezeOf(bandwidth, averageBandwidth) ==
  [isSqueezing |-> RLt(bandwidth, RMul(averageBandwidth, Rat(1, 2))),
   bandwidthPercentile |-> RMul(RDiv(bandwidth, averageBandwidth), Num(100)),
   averageBandwidth |-> averageBandwidth,
   currentBandwidth |-> bandwidth]

AverageBandwidth(recentBandwidths, bandwidth) ==
  IF Len(recentBandwidths) > 0
  THEN RDiv(RSumSeq(recentBandwidths), Num(Len(recentBandwidths)))
  ELSE bandwidth

BandOf(sma, spread, bandwidth, averageBandwidth) ==
  [middle    |-> sma,
   upper     |-> RAdd(sma, spread),
   lower     |-> RSub(sma, spread),
   bandwidth |-> bandwidth,
   squeeze   |-> SqueezeOf(bandwidth, averageBandwidth)]

BandAt(prices, period, multiplier, bandwidths, k) ==
  BandOf(BandSMA(BandWindow(prices, period, period - 2 + k)),
         RMul(Num(multiplier), BandStdDev(BandWindow(prices, period, period - 2 + k))),
         bandwidths[k],
         AverageBandwidth(SubSeq(bandwidths, Max2(1, k - 20), k - 1), bandwidths[k]))

BandsOver(prices, period, multiplier, bandwidths) ==
  Array([k \in 1..Len(bandwidths) |-> BandAt(prices, period, multiplier, bandwidths, k)])

BandwidthsOver(prices, period, multiplier) ==
  Array([k \in 1..Max2(0, Len(prices) - period + 1) |->
           Bandwidth(BandWindow(prices, period, period - 2 + k), multiplier)])

BollingerBandsCalculate(data, period, multiplier) ==
  BandsOver(Closes(data), period, multiplier,
            BandwidthsOver(Closes(data), period, multiplier))

BandVolatility(bandwidth, bandwidths, avgBandwidth) ==
  [state   |-> IF RGt(bandwidth, RMul(avgBandwidth, Rat(3, 2))) THEN "HIGH"
               ELSE IF RLt(bandwidth, RMul(avgBandwidth, Rat(1, 2))) THEN "LOW"
               ELSE "NORMAL",
   current |-> bandwidth,
   average |-> avgBandwidth,
   max     |-> RMaxSeq(bandwidths),
   min     |-> RMinSeq(bandwidths)]

BandSqueeze(squeeze) ==
  [active    |-> squeeze.isSqueezing,
   intensity |-> IF RLt(squeeze.bandwidthPercentile, Num(20)) THEN "STRONG"
                 ELSE IF RLt(squeeze.bandwidthPercentile, Num(40)) THEN "MODERATE"
                 ELSE "NONE",
   bandwidthPercentile |-> squeeze.bandwidthPercentile,
   currentBandwidth    |-> squeeze.currentBandwidth,
   averageBandwidth    |-> squeeze.averageBandwidth]

\* latest is the last band pushed: the window over the oldest bbPeriod bars.
BandSummary(latest, bandwidths) ==
  [upper  |-> latest.upper,
   middle |-> latest.middle,
   lower  |-> latest.lower,
   width  |-> latest.bandwidth,
   squeeze    |-> BandSqueeze(latest.squeeze),
   volatility |-> BandVolatility(latest.bandwidth, bandwidths,
                                 RDiv(RSumSeq(bandwidths), Num(Len(bandwidths))))]

\* The bandwidths of bands.slice(-50).
RecentBandwidths(recentBands) ==
  Array([j \in 1..Len(recentBands) |-> recentBands[j].bandwidth])

BandsSummary(bands) ==
  BandSummary(bands[Len(bands)],
              RecentBandwidths(SliceFrom(bands, Max2(0, Len(bands) - 50))))

calculateBollingerBands(data) ==
  BandsSummary(BollingerBandsCalculate(data, bbPeriod, bbStdDev))

\* +volume, -volume or 0 as the close is above, below or at the previous (older) close.
SignedVolume(close, prevClose, volume) ==
  IF close > prevClose THEN volume ELSE IF close < prevClose THEN -volume ELSE 0

analyzeVolume(data) ==
  LET n == Len(data)
      volume10Day == Rat(SumSeq(Volumes(Slice(data, 0, 10))), 10)
      volume20Day == Rat(SumSeq(Volumes(Slice(data, 0, 20))), 20)
      currentVolume == data[1].volume
      volumeRatio10Day == RMul(RDiv(Num(currentVolume), volume10Day), Num(100))
      volumeRatio20Day == RMul(RDiv(Num(currentVolume), volume20Day), Num(100))
      obv == SumSeq([i \in 1..n |->
                       SignedVolume(data[i].close,
                                    IF i < n THEN data[i + 1].close ELSE data[i].close,
                                    data[i].volume)])
      obvLag5 == SumSeq([i \in 1..(n - 5) |->
                           SignedVolume(data[i + 5].close,
                                        IF i - 1 < n - 6 THEN data[i + 6].close
                                        ELSE data[i + 5].close,
                                        data[i + 5].volume)])
      obvMomentum == RMul(RDiv(Num(obv - obvLag5), Num(Abs(obvLag5))), Num(100))
  IN  [ratiosDef  |-> TRUE,
       averageTenDay    |-> volume10Day,
       averageTwentyDay |-> volume20Day,
       tenDay     |-> volumeRatio10Day,
       twentyDay  |-> volumeRatio20Day,
       current_vs_average |-> volumeRatio20Day,
       obv        |-> [value |-> obv,
                       momentum |-> obvMomentum,
                       trend |-> IF RGt(obvMomentum, Num(10)) THEN "BULLISH"
                                 ELSE IF RLt(obvMomentum, Num(-10)) THEN "BEARISH"
                                 ELSE "NEUTRAL"],
       current    |-> currentVolume,
       trend      |-> IF RGt(volumeRatio20Day, Num(110)) THEN "INCREASING"
                      ELSE IF RLt(volumeRatio20Day, Num(90)) THEN "DECREASING"
                      ELSE "NEUTRAL",
       signals    |-> [accumulation |-> RGt(obvMomentum, Num(0)) /\ RGt(volumeRatio20Day, Num(100)),
                       distribution |-> RLt(obvMomentum, Num(0)) /\ RGt(volumeRatio20Day, Num(100)),
                       intensity |-> IF RGt(volumeRatio20Day, Num(150)) THEN "HIGH"
                                     ELSE IF RGt(volumeRatio20Day, Num(120)) THEN "MEDIUM"
                                     ELSE "LOW"]]

calculateMovingAverages(data) ==
  LET prices  == Closes(data)
      ema20   == calculateEMA(data, Num(20))
      sma50   == calculateSMA(prices, 50)
      sma200  == calculateSMA(prices, 200)
      currentPrice == Num(prices[1])
      prevPrices == Closes(SliceFrom(data, 1))
      prevEma20  == calculateEMA(SliceFrom(data, 1), Num(20))
      prevSma50  == calculateSMA(prevPrices, 50)
      prevSma200 == calculateSMA(prevPrices, 200)
      Cross(prevA, prevB, a, b) ==
        [bullish |-> RLt(prevA, prevB) /\ RGt(a, b),
         bearish |-> RGt(prevA, prevB) /\ RLt(a, b)]
      ema20CrossSma50  == Cross(prevEma20, prevSma50, ema20, sma50)
      ema20CrossSma200 == Cross(prevEma20, prevSma200, ema20, sma200)
      sma50CrossSma200 == Cross(prevSma50, prevSma200, sma50, sma200)
      aboveSma200 == RGt(currentPrice, sma200)
  IN  [ema20  |-> ema20,
       sma50  |-> sma50,
       sma200 |-> sma200,
       crosses |-> [ema20_sma50  |-> ema20CrossSma50,
                    ema20_sma200 |-> ema20CrossSma200,
                    sma50_sma200 |-> sma50CrossSma200,
                    hasRecentCross |->
                      \/ ema20CrossSma50.bullish  \/ ema20CrossSma50.bearish
                      \/ ema20CrossSma200.bullish \/ ema20CrossSma200.bearish
                      \/ sma50CrossSma200.bullish \/ sma50CrossSma200.bearish],
       pricePosition |->
         [aboveEma20  |-> RGt(currentPrice, ema20),
          aboveSma50  |-> RGt(currentPrice, sma50),
          aboveSma200 |-> aboveSma200,
          status |-> IF aboveSma200
                     THEN (IF RGt(currentPrice, sma50)
                           THEN (IF RGt(currentPrice, ema20) THEN "STRONG_BULLISH"
                                 ELSE "BULLISH")
                           ELSE "WEAK_BULLISH")
                     ELSE (IF RLt(currentPrice, sma50)
                           THEN (IF RLt(currentPrice, ema20) THEN "STRONG_BEARISH"
                                 ELSE "BEARISH")
                           ELSE "WEAK_BEARISH")],
       trend |-> IF aboveSma200 /\ RGt(ema20, sma50) /\ RGt(sma50, sma200) THEN "BULLISH"
                 ELSE IF ~aboveSma200 /\ RLt(ema20, sma50) /\ RLt(sma50, sma200)
                      THEN "BEARISH"
                 ELSE "NEUTRAL"]

calculateRiskLevel(atr, price) ==
  LET atrPercent == RMul(RDiv(atr, price), Num(100))
  IN  IF RGt(atrPercent, Num(3)) THEN "HIGH"
      ELSE IF RGt(atrPercent, Rat(3, 2)) THEN "MEDIUM"
      ELSE "LOW"

\* The iterations i = hi, hi - 1, .. lo of the loop of calculateATR, in that
\* order; atr is newest first (unshift).
RECURSIVE AtrFrom(_, _, _, _)
AtrFrom(data, hi, lo, atr) ==
  IF hi < lo THEN atr
  ELSE IF hi = lo
       THEN LET high == data[hi + 1].high
                low  == data[hi + 1].low
                prevClose == IF hi < Len(data) - 1 THEN data[hi + 2].close
                             ELSE data[hi + 1].close
                tr == Max2(high - low, Max2(Abs(high - prevClose), Abs(low - prevClose)))
            IN  IF Len(atr) = 0 THEN <<Num(tr)>>
                ELSE <<RDiv(RAdd(RMul(atr[1], Num(atrPeriod - 1)), Num(tr)),
                            Num(atrPeriod))>> \o atr
  ELSE LET older == AtrFrom(data, hi, Mid(lo, hi) + 1, atr)
       IN  IF Evaluated(older) THEN AtrFrom(data, Mid(lo, hi), lo, older) ELSE older

calculateATR(data) ==
  LET atr == AtrFrom(data, Len(data) - 1, 0, <<>>)
  IN  [def        |-> TRUE,
       value      |-> atr[1],
       history    |-> atr,
       volatility |-> IF RGt(atr[1], atr[Min2(20, Len(atr) - 1) + 1]) THEN "INCREASING"
                      ELSE "DECREASING",
       risk_level |-> calculateRiskLevel(atr[1], Num(data[1].close))]

determineInstitutionalActivity(mfiValue, volume) ==
  IF RGt(mfiValue, Num(60)) /\ volume > 1000000 THEN "ACCUMULATION"
  ELSE IF RLt(mfiValue, Num(40)) /\ volume > 1000000 THEN "DISTRIBUTION"
  ELSE "NEUTRAL"

calculateMFI(data) ==
  LET n == Len(data)
      typicalPrices == Array([i \in 1..n |->
                                Rat(data[i].high + data[i].low + data[i].close, 3)])
      moneyFlow     == Array([i \in 1..n |-> RMul(typicalPrices[i], Num(data[i].volume))])
      \* the window of the JavaScript index i: j = 0 .. mfiPeriod - 1
      Positive(i, j) == RGt(At(typicalPrices, i - j + 1), At(typicalPrices, i - j))
      posFlow(i) == RSumSeq([j \in 1..mfiPeriod |->
                               IF Positive(i, j - 1) THEN moneyFlow[i - j + 2] ELSE Num(0)])
      negFlow(i) == RSumSeq([j \in 1..mfiPeriod |->
                               IF Positive(i, j - 1) THEN Num(0) ELSE moneyFlow[i - j + 2]])
      mfiValue(i) == RSub(Num(100),
                          RDiv(Num(100), RAdd(Num(1), RDiv(posFlow(i), negFlow(i)))))
      \* unshift: the value of the last index comes first
      mfi == Array([k \in 1..(n - mfiPeriod + 1) |-> mfiValue(n - k)])
  IN  [def     |-> TRUE,
       value   |-> mfi[1],
       history |-> mfi,
       signal  |-> IF RGt(mfi[1], Num(80)) THEN "OVERBOUGHT"
                   ELSE IF RLt(mfi[1], Num(20)) THEN "OVERSOLD"
                   ELSE "NEUTRAL",
       trend   |-> IF RGt(mfi[1], mfi[Min2(5, Len(mfi) - 1) + 1]) THEN "BULLISH"
                   ELSE "BEARISH",
       institutional_activity |-> determineInstitutionalActivity(mfi[1], data[1].volume)]

\* nearest.price is levels[nearestLevel] with the nearest object as the key:
\* undefined.
calculateFibonacciLevels(data) ==
  LET high   == MathMax(Highs(data))
      low    == MathMin(Lows(data))
      levels == FibonacciLevelTable(high, low)
      currentPrice == Num(data[1].close)
      nearestLevel == findNearestFibonacciLevel(currentPrice, levels)
  IN  [def        |-> TRUE,
       levels     |-> levels,
       nearest    |-> [level |-> nearestLevel, price |-> NaN],
       support    |-> {i \in 1..Len(levels) : RLt(levels[i], currentPrice)},
       resistance |-> {i \in 1..Len(levels) : RGt(levels[i], currentPrice)}]

NullResult == [null |-> TRUE]

IsNull(value) == "null" \in DOMAIN value

\* The indicators analyze() computes, in its order.
IndicatorsOf(data) ==
  [rsi  |-> calculateRSI(data),
   macd |-> calculateMACD(data),
   ema  |-> calculateEMA(data, NaN),
   bollingerBands |-> calculateBollingerBands(data),
   volume |-> analyzeVolume(data),
   movingAverages |-> calculateMovingAverages(data),
   atr  |-> calculateATR(data),
   mfi  |-> calculateMFI(data),
   fibonacci |-> calculateFibonacciLevels(data),
   patterns  |-> analyzePatterns(data) @@ [def |-> TRUE]]

\* The object analyze() returns; an exception of analyzeBreakout is rethrown.
AnalysisOf(indicators, breakout) ==
  IF breakout.threw THEN breakout
  ELSE Returned(indicators @@ [breakout    |-> breakout.value,
                               direction   |-> breakout.value.direction,
                               probability |-> breakout.value.probability])

\* analyzeBreakout reads bollingerBands, volume, macd, movingAverages, atr,
\* mfi, fibonacci and patterns of the indicators.
AnalysisWith(data, indicators) ==
  AnalysisOf(indicators, analyzeBreakout([close |-> Num(data[1].close)], indicators))

\* marketData is [given, data]: given is false for a missing (undefined or
\* null) argument.
analyze(marketData) ==
  IF ~marketData.given \/ Len(marketData.data) < minBars THEN Returned(NullResult)
  ELSE AnalysisWith(marketData.data, IndicatorsOf(marketData.data))

-----------------------------------------------------------------------------
(* StopLossService (the class with calculateStopLoss) and RiskManager.     *)
(* patterns is given by its dominantPattern, NullPattern when there is     *)
(* none; a support, resistance or riskPercent that is not given is Null.   *)

Null == [k |-> "null", n |-> 0, d |-> 1]

\* if (x): a number other than 0 and NaN.
Truthy(x) == x.k = "inf" \/ (x.k = "num" /\ x.n # 0)

\* x || Infinity
OrInfinity(x) == IF Truthy(x) THEN x ELSE PInf

\* Math.floor
RFloor(a) == IF a.k = "num" THEN Num(a.n \div a.d) ELSE a

TIGHT_ATR_MULTIPLIER == Rat(3, 2)

NORMAL_ATR_MULTIPLIER == Num(2)

WIDE_ATR_MULTIPLIER == Num(3)

SHORT_TERM_PERIOD == 5

MEDIUM_TERM_PERIOD == 10

LONG_TERM_PERIOD == 20

SUPPORT_BUFFER == Rat(5, 1000)

RESISTANCE_BUFFER == Rat(5, 1000)

HIGH_VOLATILITY_THRESHOLD == Rat(3, 100)

LOW_VOLATILITY_THRESHOLD == Rat(1, 100)

PATTERN_MULTIPLIERS ==
  [HEAD_AND_SHOULDERS |-> [multiplier |-> Rat(3, 2), confidence_threshold |-> Rat(70, 100)],
   DOUBLE_BOTTOM      |-> [multiplier |-> Num(2),    confidence_threshold |-> Rat(75, 100)],
   DOUBLE_TOP         |-> [multiplier |-> Num(2),    confidence_threshold |-> Rat(75, 100)],
   TRIANGLE           |-> [multiplier |-> Rat(7, 4), confidence_threshold |-> Rat(65, 100)],
   FLAG               |-> [multiplier |-> Rat(3, 2), confidence_threshold |-> Rat(60, 100)],
   WEDGE              |-> [multiplier |-> Rat(7, 4), confidence_threshold |-> Rat(70, 100)],
   CHANNEL            |-> [multiplier |-> Rat(3, 2), confidence_threshold |-> Rat(65, 100)]]

TRAILING_ACTIVATION_THRESHOLD == Rat(2, 100)

TRAILING_STEP_SIZE == Rat(5, 1000)

calculateTechnicalStops(currentPrice, support, resistance) ==
  [support_based    |-> IF Truthy(support)
                        THEN RMul(support, RSub(Num(1), SUPPORT_BUFFER)) ELSE Null,
   resistance_based |-> IF Truthy(resistance)
                        THEN RMul(resistance, RAdd(Num(1), RESISTANCE_BUFFER)) ELSE Null,
   pattern_based    |-> Null]

VolatilityMultiplier(volatilityRatio) ==
  IF RLe(HIGH_VOLATILITY_THRESHOLD, volatilityRatio) THEN WIDE_ATR_MULTIPLIER
  ELSE IF RLe(volatilityRatio, LOW_VOLATILITY_THRESHOLD) THEN TIGHT_ATR_MULTIPLIER
  ELSE NORMAL_ATR_MULTIPLIER

calculateVolatilityStops(currentPrice, atr) ==
  [tight  |-> RSub(currentPrice, RMul(atr, TIGHT_ATR_MULTIPLIER)),
   normal |-> RSub(currentPrice, RMul(atr, NORMAL_ATR_MULTIPLIER)),
   wide   |-> RSub(currentPrice, RMul(atr, WIDE_ATR_MULTIPLIER)),
   recommended |-> RSub(currentPrice,
                        RMul(atr, VolatilityMultiplier(RDiv(atr, currentPrice))))]

\* The same with the multiples of the short and the long term exchanged.
calculateTimeBasedStops_LongTermTightest(currentPrice, atr) ==
  [short_term  |-> [initial |-> RSub(currentPrice, RMul(atr, Rat(5, 2))),
                    trailing |-> TRUE, period |-> SHORT_TERM_PERIOD],
   medium_term |-> [initial |-> RSub(currentPrice, RMul(atr, Num(2))),
                    trailing |-> TRUE, period |-> MEDIUM_TERM_PERIOD],
   long_term   |-> [initial |-> RSub(currentPrice, RMul(atr, Rat(3, 2))),
                    trailing |-> TRUE, period |-> LONG_TERM_PERIOD]]

calculateTimeBasedStops(currentPrice, atr) ==
  [short_term  |-> [initial |-> RSub(currentPrice, RMul(atr, Rat(3, 2))),
                    trailing |-> TRUE, period |-> SHORT_TERM_PERIOD],
   medium_term |-> [initial |-> RSub(currentPrice, RMul(atr, Num(2))),
                    trailing |-> TRUE, period |-> MEDIUM_TERM_PERIOD],
   long_term   |-> [initial |-> RSub(currentPrice, RMul(atr, Rat(5, 2))),
                    trailing |-> TRUE, period |-> LONG_TERM_PERIOD]]

\* The ATR multiple the switch on the pattern type picks.
PatternStopMultiple(type) ==
  IF type = "HEAD_AND_SHOULDERS" THEN Rat(3, 2)
  ELSE IF type = "DOUBLE_BOTTOM" THEN Num(2)
  ELSE IF type = "TRIANGLE" THEN Rat(7, 4)
  ELSE Num(2)

calculatePatternStops(currentPrice, dominantPattern, atr) ==
  IF dominantPattern = NullPattern
  THEN [pattern_specific |-> Null, confidence |-> Num(0)]
  ELSE [pattern_specific |->
          RSub(currentPrice, RMul(atr, PatternStopMultiple(dominantPattern.type))),
        confidence |-> dominantPattern.confidence]

calculateVolatilityAdjustment(volatility) ==
  IF RLe(HIGH_VOLATILITY_THRESHOLD, OrZero(volatility.value)) THEN Rat(3, 2)
  ELSE IF RLe(OrZero(volatility.value), LOW_VOLATILITY_THRESHOLD) THEN Rat(8, 10)
  ELSE Num(1)

calculatePatternAdjustment(dominantPattern) ==
  IF dominantPattern = NullPattern THEN Num(1)
  ELSE IF dominantPattern.type \notin DOMAIN PATTERN_MULTIPLIERS THEN Num(1)
  ELSE LET patternConfig == PATTERN_MULTIPLIERS[dominantPattern.type]
       IN  IF RLe(patternConfig.confidence_threshold, dominantPattern.confidence)
           THEN patternConfig.multiplier
           ELSE RAdd(Num(1),
                     RMul(RSub(patternConfig.multiplier, Num(1)),
                          RDiv(dominantPattern.confidence,
                               patternConfig.confidence_threshold)))

TrailingAt(currentPrice, adjustedDistance, volatilityAdjustment, patternAdjustment) ==
  [distance |-> adjustedDistance,
   activation_threshold |-> RMul(currentPrice, RAdd(Num(1), TRAILING_ACTIVATION_THRESHOLD)),
   step_size |-> RMul(adjustedDistance, TRAILING_STEP_SIZE),
   adjustment_factors |-> [volatility |-> volatilityAdjustment,
                           pattern    |-> patternAdjustment]]

calculateTrailingStops(currentPrice, atr, volatility, dominantPattern) ==
  TrailingAt(currentPrice,
             RMul(RMul(RMul(atr, NORMAL_ATR_MULTIPLIER),
                       calculateVolatilityAdjustment(volatility)),
                  calculatePatternAdjustment(dominantPattern)),
             calculateVolatilityAdjustment(volatility),
             calculatePatternAdjustment(dominantPattern))

\* Math.min of the candidate stops of a tier.
MinOf(stops) == RMinSeq(stops)

RiskPercentOf(currentPrice, stop) ==
  RMul(RDiv(RSub(currentPrice, stop), currentPrice), Num(100))

Recommendations(technical, volatility, timeBased, pattern, currentPrice) ==
  [conservative |->
     [initial |-> MinOf(<<OrInfinity(technical.support_based), volatility.wide,
                          timeBased.long_term.initial,
                          OrInfinity(pattern.pattern_specific)>>),
      trailing |-> TRUE,
      timeframe |-> "LONG_TERM",
      risk_percent |-> RiskPercentOf(currentPrice, volatility.wide)],
   moderate |->
     [initial |-> MinOf(<<volatility.normal, timeBased.medium_term.initial,
                          OrInfinity(pattern.pattern_specific)>>),
      trailing |-> TRUE,
      timeframe |-> "MEDIUM_TERM",
      risk_percent |-> RiskPercentOf(currentPrice, volatility.normal)],
   aggressive |->
     [initial |-> MinOf(<<volatility.tight, timeBased.short_term.initial>>),
      trailing |-> TRUE,
      timeframe |-> "SHORT_TERM",
      risk_percent |-> RiskPercentOf(currentPrice, volatility.tight)]]

getOptimalStopReason(pattern, currentPrice, atr) ==
  IF RGt(pattern.confidence, Rat(7, 10)) THEN "HIGH_CONFIDENCE_PATTERN"
  ELSE IF RLe(HIGH_VOLATILITY_THRESHOLD, RDiv(atr, currentPrice)) THEN "HIGH_VOLATILITY"
  ELSE IF RLe(RDiv(atr, currentPrice), LOW_VOLATILITY_THRESHOLD) THEN "LOW_VOLATILITY"
  ELSE "BALANCED_CONDITIONS"

\* The tier determineOptimalStop takes, with the volatility tested before the
\* pattern.
OptimalTier_VolatilityFirst(pattern, currentPrice, atr) ==
  IF RLe(HIGH_VOLATILITY_THRESHOLD, RDiv(atr, currentPrice)) THEN "conservative"
  ELSE IF RLe(RDiv(atr, currentPrice), LOW_VOLATILITY_THRESHOLD) THEN "aggressive"
  ELSE IF RGt(pattern.confidence, Rat(7, 10)) THEN "conservative"
  ELSE "moderate"

\* The tier determineOptimalStop takes.
OptimalTier(pattern, currentPrice, atr) ==
  IF RGt(pattern.confidence, Rat(7, 10)) THEN "conservative"
  ELSE IF RLe(HIGH_VOLATILITY_THRESHOLD, RDiv(atr, currentPrice)) THEN "conservative"
  ELSE IF RLe(RDiv(atr, currentPrice), LOW_VOLATILITY_THRESHOLD) THEN "aggressive"
  ELSE "moderate"

\* The chosen tier after the trailing adjustment, which is made on the tier
\* object itself.
TrailingAdjusted(optimal, currentPrice, trailing) ==
  IF RLe(trailing.activation_threshold, currentPrice)
  THEN [optimal EXCEPT !.trailing = TRUE,
                       !.initial = RMax(optimal.initial,
                                        RSub(currentPrice, trailing.distance))]
  ELSE optimal

WithReason(optimal, reason) ==
  [initial |-> optimal.initial, trailing |-> optimal.trailing,
   timeframe |-> optimal.timeframe, risk_percent |-> optimal.risk_percent,
   reason |-> reason]

determineOptimalStop(recommendations, pattern, currentPrice, atr, trailing) ==
  WithReason(TrailingAdjusted(recommendations[OptimalTier(pattern, currentPrice, atr)],
                              currentPrice, trailing),
             getOptimalStopReason(pattern, currentPrice, atr))

\* recommendations as consolidateStopLevels returns it: the chosen tier is the
\* object determineOptimalStop adjusted.
RecommendationsReturned(recommendations, pattern, currentPrice, atr, trailing) ==
  [recommendations EXCEPT
     ![OptimalTier(pattern, currentPrice, atr)] =
        TrailingAdjusted(recommendations[OptimalTier(pattern, currentPrice, atr)],
                         currentPrice, trailing)]

StopLevels(recommendations, technical, volatility, timeBased, pattern, trailing, currentPrice, atr) ==
  [recommendations  |-> RecommendationsReturned(recommendations, pattern, currentPrice, atr, trailing),
   optimal          |-> determineOptimalStop(recommendations, pattern, currentPrice, atr, trailing),
   technical_levels |-> technical,
   volatility_based |-> volatility,
   time_based       |-> timeBased,
   pattern_based    |-> pattern,
   trailing_stop    |-> trailing]

consolidateStopLevels(technical, volatility, timeBased, pattern, trailing, currentPrice, atr) ==
  StopLevels(Recommendations(technical, volatility, timeBased, pattern, currentPrice),
             technical, volatility, timeBased, pattern, trailing, currentPrice, atr)

\* technicalLevels is NullResult when the caller gave none: reading its
\* support is then a TypeError, which calculateStopLoss logs and rethrows.
calculateStopLoss(params) ==
  IF IsNull(params.technicalLevels) THEN Threw("TypeError")
  ELSE Returned(consolidateStopLevels(
         calculateTechnicalStops(params.currentPrice, params.technicalLevels.support,
                                 params.technicalLevels.resistance),
         calculateVolatilityStops(params.currentPrice, params.atr),
         calculateTimeBasedStops(params.currentPrice, params.atr),
         calculatePatternStops(params.currentPrice, params.patterns, params.atr),
         calculateTrailingStops(params.currentPrice, params.atr, params.volatility,
                                params.patterns),
         params.currentPrice, params.atr))

DEFAULT_RISK_PERCENT == 1

MAX_RISK_PERCENT == 2

POSITION_SCALING ==
  [HIGH_CONFIDENCE |-> Num(1), MEDIUM_CONFIDENCE |-> Rat(75, 100), LOW_CONFIDENCE |-> Rat(1, 2)]

\* capital * (riskPercent / 100), without the cap on riskPercent.
RiskAmount_Uncapped(capital, riskPercent) ==
  RMul(capital, RDiv(riskPercent, Num(100)))

\* capital * (Math.min(riskPercent, MAX_RISK_PERCENT) / 100)
RiskAmount(capital, riskPercent) ==
  RMul(capital, RDiv(RMin(riskPercent, Num(MAX_RISK_PERCENT)), Num(100)))

\* Math.floor(basePositionSize * POSITION_SCALING[confidence]); a confidence
\* that is no key of the table scales by undefined.
ScaledSize(basePositionSize, confidence) ==
  RFloor(RMul(basePositionSize,
              IF confidence \in DOMAIN POSITION_SCALING
              THEN POSITION_SCALING[confidence] ELSE NaN))

PositionSize(capital, riskPercent, currentPrice, stopLevel, confidence) ==
  ScaledSize(RFloor(RDiv(RiskAmount(capital, riskPercent),
                         RAbs(RSub(currentPrice, stopLevel)))),
             confidence)

StopLossParams(params) ==
  [currentPrice    |-> params.currentPrice,
   atr             |-> params.technicalData.atr.value,
   technicalLevels |-> params.technicalData.levels,
   patterns        |-> params.technicalData.patterns,
   volatility      |-> params.technicalData.volatility]

\* confidence and riskPercent take their defaults when not given.
calculateDynamicPositionSize(params) ==
  IF calculateStopLoss(StopLossParams(params)).threw
  THEN calculateStopLoss(StopLossParams(params))
  ELSE Returned(PositionSize(
         params.capital,
         IF params.riskPercent = Null THEN Num(DEFAULT_RISK_PERCENT) ELSE params.riskPercent,
         params.currentPrice,
         calculateStopLoss(StopLossParams(params)).value.optimal.initial,
         IF params.confidence = "undefined" THEN "MEDIUM_CONFIDENCE" ELSE params.confidence))

-----------------------------------------------------------------------------

(* APIHandler.getMarketData with its NodeCache and RateLimiter.  Times are *)
(* in seconds.  A field of a response is the text the provider sent, as a  *)
(* sequence of characters.                                                 *)

\* new NodeCache({ stdTTL: 300 })
stdTTL == 300

\* new RateLimiter(5, 60000): 5 requests per window of 60 000 ms.
maxRequests == 5

timeWindow == 60

\* getMarketData(symbol, days = 100)
days == 100

Digits == <<"0", "1", "2", "3", "4", "5", "6", "7", "8", "9">>

IsDigit(c) == \E i \in 1..10 : Digits[i] = c

DigitValue(c) == (CHOOSE i \in 1..10 : Digits[i] = c) - 1

\* The position of the last digit of the run of digits that starts at i
\* (i - 1 when there is none).
RECURSIVE DigitsEnd(_, _)
DigitsEnd(text, i) ==
  IF i <= Len(text) /\ IsDigit(text[i]) THEN DigitsEnd(text, i + 1) ELSE i - 1

\* The number the digits text[i..j] write.
RECURSIVE DigitsValue(_, _, _)
DigitsValue(text, i, j) ==
  IF j < i THEN 0 ELSE 10 * DigitsValue(text, i, j - 1) + DigitValue(text[j])

\* parseInt(text, 10) of a text without sign or leading blanks: the leading
\* digits, NaN when the text does not start with a digit.
ParseInt(text) ==
  IF DigitsEnd(text, 1) = 0 THEN NaN ELSE Num(DigitsValue(text, 1, DigitsEnd(text, 1)))

\* The digits after a decimal point at position dot, as a fraction.
FractionAfter(text, dot) ==
  Rat(DigitsValue(text, dot + 1, DigitsEnd(text, dot + 1)),
      10 ^ (DigitsEnd(text, dot + 1) - dot))

\* parseFloat(text) of such a text: the longest leading decimal number, and
\* whatever follows it is ignored.
ParseFloat(text) ==
  IF DigitsEnd(text, 1) = 0 THEN NaN
  ELSE IF DigitsEnd(text, 1) < Len(text) /\ text[DigitsEnd(text, 1) + 1] = "."
       THEN RAdd(ParseInt(text), FractionAfter(text, DigitsEnd(text, 1) + 1))
  ELSE ParseInt(text)

\* One entry of 'Time Series (Daily)' turned into a candle; the date is the
\* day of the month.
Candle(entry) ==
  [timestamp |-> entry.date,
   open      |-> ParseFloat(entry.open),
   high      |-> ParseFloat(entry.high),
   low       |-> ParseFloat(entry.low),
   close     |-> ParseFloat(entry.close),
   volume    |-> ParseInt(entry.volume),
   interval  |-> "daily"]

\* The filter on the candles.
ValidCandle(candle) ==
  /\ ~IsNaN(candle.open)
  /\ ~IsNaN(candle.high)
  /\ ~IsNaN(candle.low)
  /\ ~IsNaN(candle.close)
  /\ ~IsNaN(candle.volume)
  /\ RGt(candle.volume, Num(0))
  /\ RLe(candle.low, candle.high)
  /\ RLe(candle.open, candle.high)
  /\ RLe(candle.close, candle.high)
  /\ RLe(candle.low, candle.open)
  /\ RLe(candle.low, candle.close)

\* .map(Candle).filter(ValidCandle) over the first k entries.
RECURSIVE ValidCandlesTo(_, _)
ValidCandlesTo(entries, k) ==
  IF k = 0 THEN <<>>
  ELSE IF ValidCandle(Candle(entries[k]))
       THEN Append(ValidCandlesTo(entries, k - 1), Candle(entries[k]))
  ELSE ValidCandlesTo(entries, k - 1)

\* The stable sort by timestamp, oldest first.
RECURSIVE InsertByTime(_, _)
InsertByTime(sorted, candle) ==
  IF sorted = <<>> THEN <<candle>>
  ELSE IF sorted[Len(sorted)].timestamp <= candle.timestamp
       THEN Append(sorted, candle)
  ELSE Append(InsertByTime(SubSeq(sorted, 1, Len(sorted) - 1), candle),
              sorted[Len(sorted)])

RECURSIVE SortByTimeTo(_, _)
SortByTimeTo(candles, k) ==
  IF k = 0 THEN <<>> ELSE InsertByTime(SortByTimeTo(candles, k - 1), candles[k])

\* .slice(-n)
LastOf(s, n) == SubSeq(s, Max2(1, Len(s) - n + 1), Len(s))

Transformed(entries) ==
  LastOf(SortByTimeTo(ValidCandlesTo(entries, Len(entries)),
                      Len(ValidCandlesTo(entries, Len(entries)))),
         days)

\* The sum of the gains (sign 1) or of the losses (sign -1) of data[1..k].
RECURSIVE ApiChanges(_, _, _)
ApiChanges(data, k, sign) ==
  IF k <= 1 THEN Num(0)
  ELSE LET difference == RSub(data[k].close, data[k - 1].close)
       IN  IF sign = 1 /\ RLe(Num(0), difference)
           THEN RAdd(ApiChanges(data, k - 1, sign), difference)
           ELSE IF sign = -1 /\ RLt(difference, Num(0))
           THEN RSub(ApiChanges(data, k - 1, sign), difference)
           ELSE ApiChanges(data, k - 1, sign)

\* APIHandler.calculateRSI(data, periods = 14)
ApiCalculateRSI(data) ==
  IF Len(data) < 14 + 1 THEN Null
  ELSE IF RDiv(ApiChanges(data, Len(data), -1), Num(14)) = Num(0) THEN Num(100)
  ELSE RSub(Num(100),
            RDiv(Num(100),
                 RAdd(Num(1), RDiv(RDiv(ApiChanges(data, Len(data), 1), Num(14)),
                                   RDiv(ApiChanges(data, Len(data), -1), Num(14))))))

\* The EMA after data[1..k], started at data[1].close.
RECURSIVE ApiEmaTo(_, _, _)
ApiEmaTo(data, k, periods) ==
  IF k = 1 THEN data[1].close
  ELSE RAdd(RMul(RSub(data[k].close, ApiEmaTo(data, k - 1, periods)),
                 Rat(2, periods + 1)),
            ApiEmaTo(data, k - 1, periods))

\* APIHandler.calculateEMA(data, periods)
ApiCalculateEMA(data, periods) ==
  IF Len(data) < periods THEN Null ELSE ApiEmaTo(data, Len(data), periods)

\* APIHandler.calculateSMA(data, periods) of numbers.
ApiCalculateSMA(data, periods) ==
  IF Len(data) < periods THEN Null
  ELSE RDiv(RSumSeq(LastOf(data, periods)), Num(periods))

VolumesOf(data) == Array([i \in 1..Len(data) |-> data[i].volume])

\* null in arithmetic is 0.
NullAsZero(x) == IF x = Null THEN Num(0) ELSE x

IndicatorsAt(day, array, index, volumeSMA) ==
  [rsi   |-> ApiCalculateRSI(Slice(array, Max2(0, index - 14), index + 1)),
   ema9  |-> ApiCalculateEMA(Slice(array, 0, index + 1), 9),
   ema20 |-> ApiCalculateEMA(Slice(array, 0, index + 1), 20),
   ema50 |-> ApiCalculateEMA(Slice(array, 0, index + 1), 50),
   volumeSMA |-> volumeSMA,
   relativeVolume |-> RDiv(day.volume, NullAsZero(volumeSMA))]

Enriched(day, indicators) ==
  [timestamp |-> day.timestamp, open |-> day.open, high |-> day.high, low |-> day.low,
   close |-> day.close, volume |-> day.volume, interval |-> day.interval,
   indicators |-> indicators]

addTechnicalIndicators(data) ==
  Array([i \in 1..Len(data) |->
           Enriched(data[i],
                    IndicatorsAt(data[i], data, i - 1,
                                 ApiCalculateSMA(VolumesOf(Slice(data, Max2(0, i - 1 - 20), i)),
                                                 20)))])

\* What getMarketData does with the response of the HTTP client: the data it
\* returns and caches, or the error it throws.
Processed(response) ==
  IF response.kind = "network_error" THEN Threw("AxiosError")
  ELSE IF response.kind = "error_message" THEN Threw("Alpha Vantage API error")
  ELSE IF response.kind = "note" THEN Threw("API limit reached")
  ELSE IF response.kind = "no_series" THEN Threw("Invalid API response format")
  ELSE IF Len(Transformed(response.entries)) = 0
       THEN Threw("No valid market data available")
  ELSE Returned(addTechnicalIndicators(Transformed(response.entries)))

\* A cache without an entry for the key.
NoEntry == [data |-> <<>>, expires |-> -1]

\* A cache that reads stdTTL as milliseconds.
ExpiresAt_Milliseconds(time) == time + stdTTL \div 1000

\* cache.set: the entry lives stdTTL seconds from now.
ExpiresAt(time) == time + stdTTL

\* cache.get finds the entry: it is there and its time has not passed.
CacheHit(entry, time) == entry.expires >= 0 /\ ~(entry.expires < time)

\* A getMarketData call in progress, at one of its awaits: waiting for the
\* sleep in waitForToken, ready to call the HTTP client, or fetching.
CallAt(pc, symbol, wakeAt) == [pc |-> pc, symbol |-> symbol, wakeAt |-> wakeAt]

\* The calls in progress with one more, and with one less.
With(others, call) == others (+) SetToBag({call})

Without(all, call) == all (-) SetToBag({call})

\* No call ended in the last step.
NoOutcome == [symbol |-> "none", via |-> "none", result |-> Threw("none")]

\* A limiter whose bucket is never refilled.
Refilled_Never(time) == FALSE

\* if (timePassed >= this.timeWindow)
Refilled(time) == time - lastRefill >= timeWindow

TokensAt(time) == IF Refilled(time) THEN maxRequests ELSE tokens

\* RateLimiter.waitForToken up to its first await, for a call that joins the
\* others in progress: the window is refilled when it has passed, then a
\* token is taken or the call sleeps until the window ends.
waitForToken(others, symbol) ==
  /\ lastRefill' = IF Refilled(now) THEN now ELSE lastRefill
  /\ IF TokensAt(now) <= 0
     THEN /\ tokens' = TokensAt(now)
          /\ calls' = With(others, CallAt("waiting", symbol,
                                          now + (timeWindow - (now - lastRefill))))
     ELSE /\ tokens' = TokensAt(now) - 1
          /\ calls' = With(others, CallAt("ready", symbol, 0))

-----------------------------------------------------------------------------

(* Arguments of analyzeBreakout                                            *)

PatternTypes == {"BULL_FLAG", "BEAR_FLAG", "BULL_PENNANT", "BEAR_PENNANT",
                 "SYMMETRIC_TRIANGLE", "ASCENDING_TRIANGLE", "DESCENDING_TRIANGLE",
                 "EXPANDING_TRIANGLE", "HEAD_AND_SHOULDERS"}

\* Confidences a dominant pattern can carry: the blend of calculatePatternConfidence
\* is positive, can pass 100 (a pennant after a large move) and is NaN for a
\* triangle fitted to a flat line.
Confidences == {Num(30), Num(56), Num(100), Num(150), NaN}

NoSummary == [patternsFound |-> FALSE, dominantPattern |-> [type |-> "null", confidence |-> NaN]]

Summaries ==
  {NoSummary} \cup
  {[patternsFound |-> TRUE, dominantPattern |-> [type |-> t, confidence |-> c]] :
     t \in PatternTypes, c \in Confidences}

\* Current closes below, inside and above the bands [95, 105].
BreakoutPrices == {Num(90), Num(100), Num(110)}

\* (high, low) of the series the Fibonacci levels are taken from.
FibRanges == {<<Num(120), Num(80)>>, <<Num(130), Num(70)>>, <<Num(119), Num(79)>>}

Histograms == {Num(-1), Num(0), Num(1)}

VolumeRatios == {Num(100), Num(120), Num(121), Num(150), Num(151)}

Trends == {"BULLISH", "BEARISH", "NEUTRAL"}

\* An indicator set as analyze() passes it.
FullIndicators(hist, ratio, summary, maTrend, fib) ==
  [bollingerBands |-> [upper |-> Num(105), lower |-> Num(95)],
   macd           |-> [histogram |-> hist,
                       trend |-> IF RGt(hist, Num(0)) THEN "BULLISH" ELSE "BEARISH"],
   volume         |-> [ratiosDef |-> TRUE, twentyDay |-> ratio, current_vs_average |-> ratio],
   movingAverages |-> [trend |-> maTrend],
   atr            |-> [def |-> TRUE, value |-> Num(2)],
   mfi            |-> [def |-> TRUE, institutional_activity |-> "NEUTRAL"],
   fibonacci      |-> [def |-> TRUE, levels |-> FibonacciLevelTable(fib[1], fib[2])],
   patterns       |-> [def |-> TRUE, summary |-> summary]]

\* The four-indicator set of the earlier interface (bollingerBands, volume,
\* macd, movingAverages), as the unit tests and mockData build it.
LegacyIndicators(ratio, macdTrend, maTrend) ==
  [bollingerBands |-> [upper |-> Num(105), lower |-> Num(95)],
   macd           |-> [histogram |-> NaN, trend |-> macdTrend],
   volume         |-> [ratiosDef |-> FALSE, twentyDay |-> NaN, current_vs_average |-> ratio],
   movingAverages |-> [trend |-> maTrend],
   atr            |-> [def |-> FALSE, value |-> NaN],
   mfi            |-> [def |-> FALSE, institutional_activity |-> "undefined"],
   fibonacci      |-> [def |-> FALSE, levels |-> <<>>],
   patterns       |-> [def |-> FALSE, summary |-> NoSummary]]

\* invalidData = [{}] with four indicator objects that have no fields.
EmptyBar == [close |-> NaN]

EmptyIndicators ==
  [bollingerBands |-> [upper |-> NaN, lower |-> NaN],
   macd           |-> [histogram |-> NaN, trend |-> "undefined"],
   volume         |-> [ratiosDef |-> FALSE, twentyDay |-> NaN, current_vs_average |-> NaN],
   movingAverages |-> [trend |-> "undefined"],
   atr            |-> [def |-> FALSE, value |-> NaN],
   mfi            |-> [def |-> FALSE, institutional_activity |-> "undefined"],
   fibonacci      |-> [def |-> FALSE, levels |-> <<>>],
   patterns       |-> [def |-> FALSE, summary |-> NoSummary]]

BreakoutArgs ==
  {[shape |-> "full", data0 |-> [close |-> p],
    ind |-> FullIndicators(h, r, s, t, f)] :
     p \in BreakoutPrices, h \in Histograms, r \in VolumeRatios, s \in Summaries,
     t \in {"BULLISH", "NEUTRAL"}, f \in FibRanges}
  \cup
  {[shape |-> "legacy", data0 |-> [close |-> p],
    ind |-> LegacyIndicators(r, mt, t)] :
     p \in BreakoutPrices, r \in VolumeRatios, mt \in {"BULLISH", "BEARISH"}, t \in Trends}
  \cup
  {[shape |-> "empty", data0 |-> EmptyBar, ind |-> EmptyIndicators]}

SimpleArgs == {a \in BreakoutArgs : a.shape # "full"}

\* The type each detector reports (the pennant and the triangle report one
\* of several; one stands for them here).
TypeOf(name) ==
  CASE name = "bullFlag" -> "BULL_FLAG"
    [] name = "bearFlag" -> "BEAR_FLAG"
    [] name = "pennant"  -> "BULL_PENNANT"
    [] name = "triangle" -> "SYMMETRIC_TRIANGLE"
    [] name = "headAndShoulders" -> "HEAD_AND_SHOULDERS"

Detected(name, c) == [detected |-> TRUE, confidence |-> c, type |-> TypeOf(name)]

PatternNames == {patternOrder[i] : i \in 1..Len(patternOrder)}

\* calculatePatternConfidence returns a percentage.  A triangle whose highs
\* or lows are all equal, or that is drawn over two bars, has confidence NaN;
\* such a series has no head and shoulders.
SummaryConfidences == {Num(40), Num(70), Num(100)}

SummaryArgs ==
  {p \in [PatternNames -> {NotDetected} \cup
                           {[detected |-> TRUE, confidence |-> c] :
                              c \in SummaryConfidences \cup {NaN}}] :
     \A name \in PatternNames :
       (p[name].detected /\ IsNaN(p[name].confidence)) =>
         (name = "triangle" /\ ~p["headAndShoulders"].detected)}

WithTypes(p) ==
  [name \in PatternNames |->
     IF p[name].detected THEN Detected(name, p[name].confidence) ELSE NotDetected]

\* The other class keeps confidences in [0.5, 1].
PrimaryConfidences == {Rat(1, 2), Rat(7, 10), Num(1)}

PrimaryArgs ==
  [PatternNames -> {NotDetected} \cup
                   {[detected |-> TRUE, confidence |-> c] : c \in PrimaryConfidences}]

\* Bars for the short series: a quiet bar, a bar closing 1% higher inside a
\* narrower range, and a bar closing 12% higher.
QuietBar == [open |-> 100, high |-> 102, low |-> 98, close |-> 100, volume |-> 1000]

InsideBar == [open |-> 101, high |-> 101, low |-> 99, close |-> 101, volume |-> 900]

WideBar == [open |-> 110, high |-> 113, low |-> 97, close |-> 112, volume |-> 800]

ShortBars == {QuietBar, InsideBar, WideBar}

\* Every series of fewer than minPatternBars bars.
ShortSeries == UNION {[1..n -> ShortBars] : n \in 0..(minPatternBars - 1)}

\* Seven bars with constant closes: highs h, lows l, volumes v.
PeakBar(h, l, v) == [open |-> 100, high |-> h, low |-> l, close |-> 100, volume |-> v]

\* Peaks of 110, 130 and 111 at the indexes 1, 3 and 5 over a falling neckline.
ThreePeaks ==
  << PeakBar(100, 90, 500), PeakBar(110, 91, 400), PeakBar(100, 80, 500),
     PeakBar(130, 93, 600), PeakBar(100, 94, 500), PeakBar(111, 95, 700),
     PeakBar(100, 96, 500) >>

\* The same with the last peak flattened: two peaks.
TwoPeaks == [ThreePeaks EXCEPT ![6] = PeakBar(100, 95, 700)]

PatternSeries == ShortSeries \cup {ThreePeaks, TwoPeaks}

\* The peaks of ThreePeaks with the highest one first: 130, 110 and 111 at
\* the indexes 1, 3 and 5.
HighestFirst ==
  [ThreePeaks EXCEPT ![2] = PeakBar(130, 91, 400), ![4] = PeakBar(110, 93, 600)]

\* The same with the highest one last: 110, 111 and 130.
HighestLast ==
  [ThreePeaks EXCEPT ![4] = PeakBar(111, 93, 600), ![6] = PeakBar(130, 95, 700)]

HeadAndShouldersSeries == {ThreePeaks, TwoPeaks, HighestFirst, HighestLast}

\* Series for analyze(): a base bar repeated, with the newest bar replaced.
FlatBar == [open |-> 110, high |-> 110, low |-> 110, close |-> 110, volume |-> 2000]

RangeBar == [open |-> 110, high |-> 112, low |-> 108, close |-> 110, volume |-> 2000]

PennyBar == [open |-> 1, high |-> 1, low |-> 1, close |-> 1, volume |-> 30]

BaseBars == {FlatBar, RangeBar, PennyBar}

\* The newest bar: unchanged, with twice the volume, or broken in one field.
NewestBars(base) ==
  {base,
   [base EXCEPT !.volume = 4000],
   [base EXCEPT !.open = 120],
   [base EXCEPT !.volume = 0],
   [base EXCEPT !.high = 108, !.low = 112],
   [base EXCEPT !.low = 0]}

SeriesLengths == {0, 10, 49, 50, 51, 60}

AnalyzeArgs ==
  {[given |-> FALSE, data |-> <<>>]} \cup
  {[given |-> TRUE, data |-> [i \in 1..n |-> IF i = 1 THEN newest ELSE base]] :
     <<n, base, newest>> \in {t \in SeriesLengths \X BaseBars \X UNION {NewestBars(b) : b \in BaseBars} :
                                t[3] \in NewestBars(t[2])}}

-----------------------------------------------------------------------------
(* Series for the single indicators: flat bars at the given closes,        *)
(* newest first.                                                           *)

BarAt(close) == [open |-> close, high |-> close, low |-> close, close |-> close,
                 volume |-> 1000]

BarsAt(closes) == Array([i \in 1..Len(closes) |-> BarAt(closes[i])])

\* n closes of 1000 whose oldest is 1000 + oldest and second oldest 1000 + second.
OldestMoved(n, oldest, second) ==
  Array([i \in 1..n |-> IF i = n THEN 1000 + oldest
                        ELSE IF i = n - 1 THEN 1000 + second
                        ELSE 1000])

\* The moves of the two oldest closes: with (622, -351) and (-622, 351) the
\* nine newest MACD values sum to 0 and the newest is 28 or -28.
OldestMoves == {<<0, 0>>, <<622, -351>>, <<-622, 351>>}

MacdLengths == {50, 51, 60}

MacdSeries == {BarsAt(OldestMoved(n, m[1], m[2])) : n \in MacdLengths, m \in OldestMoves}

-----------------------------------------------------------------------------

(* Arguments of calculateEMAValues and calculateEMA                        *)

Nums(s) == Array([i \in 1..Len(s) |-> Num(s[i])])

EmaValuesLengths == {30, 50}

EmaValuesArgs ==
  {[prices |-> Nums(OldestMoved(n, oldest, 0)), period |-> period] :
     n \in EmaValuesLengths, oldest \in {0, 351}, period \in {macdFast, macdSlow}}

\* n closes of 1000 whose newest is 1000 + newest and second newest 1000 + second.
NewestMoved(n, newest, second) ==
  Array([i \in 1..n |-> IF i = 1 THEN 1000 + newest
                        ELSE IF i = 2 THEN 1000 + second
                        ELSE 1000])

EmaArgs ==
  {[data |-> BarsAt(NewestMoved(5, newest, second)), period |-> Num(period)] :
     newest \in {0, 9}, second \in {0, 18}, period \in {2, 3}}
  \cup {[data |-> BarsAt(OldestMoved(n, oldest, 0)), period |-> Num(20)] :
          n \in EmaValuesLengths, oldest \in {0, 351}}

-----------------------------------------------------------------------------

(* Arguments of calculateRSI: 14 closes, newest first, that rise towards   *)
(* the newest bar, fall towards it, stay flat or turn.                     *)

Rising  == Array([i \in 1..rsiPeriod |-> 1000 + (rsiPeriod - i)])

Falling == Array([i \in 1..rsiPeriod |-> 1000 - (rsiPeriod - i)])

Flat    == Array([i \in 1..rsiPeriod |-> 1000])

Turning == Array([i \in 1..rsiPeriod |-> IF i <= 4 THEN 1000 + i ELSE 1008 - i])

RsiSeries == {BarsAt(Rising), BarsAt(Falling), BarsAt(Flat), BarsAt(Turning)}

(* Arguments of calculateBollingerBands: 21 closes, newest first, whose    *)
(* two 20-bar windows have rational standard deviations.  In Tilted the    *)
(* newest close is 10 + tilt, the oldest 10 - tilt, and the 19 between     *)
(* are three of 11, three of 9 and thirteen of 10.                         *)

Tilted(tilt) ==
  Array([i \in 1..(bbPeriod + 1) |->
           IF i = 1 THEN 10 + tilt
           ELSE IF i = bbPeriod + 1 THEN 10 - tilt
           ELSE IF i <= 4 THEN 11
           ELSE IF i <= 7 THEN 9
           ELSE 10])

\* 21 closes of 100 with `below` closes of 99 after the newest, the newest
\* moved by `newest` and the oldest by `oldest`: the window of the 20 oldest
\* is narrower than the window of the 20 newest.
Narrowing(below, newest, oldest) ==
  Array([i \in 1..(bbPeriod + 1) |->
           IF i = 1 THEN 100 + newest
           ELSE IF i = bbPeriod + 1 THEN 100 + oldest
           ELSE IF i <= 1 + below THEN 99
           ELSE 100])

BollingerSeries ==
  {BarsAt(Tilted(2)), BarsAt(Tilted(-2)), BarsAt(OldestMoved(bbPeriod + 1, 0, 0)),
   BarsAt(Narrowing(4, -12, 0)), BarsAt(Narrowing(2, -4, 0)), BarsAt(Narrowing(1, 3, -1))}

(* Arguments of calculateSMA: the two periods calculateMovingAverages uses *)
(* over series shorter than, as long as and longer than the period.        *)

SmaLengths == {3, 50, 60}

SmaArgs ==
  {[values |-> OldestMoved(n, oldest, 0), period |-> period] :
     n \in SmaLengths, oldest \in {0, 351}, period \in {50, 200}}

(* Arguments of calculateStopLoss, calculatePatternStops and               *)
(* calculateDynamicPositionSize                                            *)

Dominant(type, confidence) == [name |-> type, confidence |-> confidence, type |-> type]

DominantPatterns ==
  {NullPattern}
  \cup {Dominant(type, Rat(c, 100)) :
          type \in {"HEAD_AND_SHOULDERS", "TRIANGLE", "DOUBLE_TOP"}, c \in {60, 70, 80}}

Atrs == {Num(0), Rat(1, 2), Num(1), Num(2), Num(3), Num(4)}

Levels ==
  {[support |-> Num(95), resistance |-> Num(105)],
   [support |-> Num(50), resistance |-> Num(105)],
   [support |-> Null, resistance |-> Null],
   NullResult}

Volatilities == {[value |-> Rat(5, 1000)], [value |-> Rat(2, 100)], [value |-> Rat(4, 100)]}

StopLossArgs ==
  {[currentPrice |-> Num(price), atr |-> atr, technicalLevels |-> levels,
    patterns |-> dominant, volatility |-> volatility] :
     price \in {100, 3, 0}, atr \in Atrs, levels \in Levels,
     dominant \in DominantPatterns, volatility \in Volatilities}

PatternStopsArgs ==
  {[currentPrice |-> Num(100), patterns |-> dominant, atr |-> Num(2)] :
     dominant \in DominantPatterns}

TechnicalData ==
  {[atr |-> [value |-> atr], levels |-> levels, patterns |-> dominant,
    volatility |-> [value |-> Rat(2, 100)]] :
     atr \in {Num(0), Rat(1, 2), Num(2), Num(4)},
     levels \in {[support |-> Num(95), resistance |-> Num(105)], NullResult},
     dominant \in {NullPattern, Dominant("TRIANGLE", Rat(80, 100))}}

PositionArgs ==
  {[capital |-> Num(capital), currentPrice |-> Num(100), confidence |-> confidence,
    riskPercent |-> riskPercent, technicalData |-> technicalData] :
     capital \in {100000, 1000},
     confidence \in {"HIGH_CONFIDENCE", "MEDIUM_CONFIDENCE", "LOW_CONFIDENCE", "undefined"},
     riskPercent \in {Null, Num(1), Num(2), Num(5)},
     technicalData \in TechnicalData}

(* Windows for detectPennant: a first bar at the pole's close, then four    *)
(* bars closing at 30 whose highs fall and lows rise (or stay), on falling *)
(* or rising volume.                                                       *)

PennantBar(close, high, low, volume) ==
  [open |-> close, high |-> high, low |-> low, close |-> close, volume |-> volume]

PennantSeriesOf(pole, narrowing, volumeStep) ==
  << PennantBar(pole, pole, pole, 500),
     PennantBar(30, 36, 24, 500 + volumeStep),
     PennantBar(30, 36 - narrowing, 24 + narrowing, 500 + 2 * volumeStep),
     PennantBar(30, 36 - 2 * narrowing, 24 + 2 * narrowing, 500 + 3 * volumeStep),
     PennantBar(30, 36 - 3 * narrowing, 24 + 3 * narrowing, 500 + 4 * volumeStep) >>

PennantSeries ==
  {PennantSeriesOf(pole, narrowing, volumeStep) :
     pole \in {10, 20, 27, 30, 60}, narrowing \in {0, 1}, volumeStep \in {-100, 100}}

(* Windows for identifyUptrend and identifyDowntrend                       *)

TrendCloses == {10, 11, 12, 13, 15}

TrendWindows ==
  {BarsAt(closes) : closes \in [1..5 -> TrendCloses]}

(* The APIHandler's callers and the answers of the HTTP client             *)

Symbols == {"AAPL", "MSFT"}

MaxCalls == 2

MaxTicks == 2

\* Two thirds of the life of a cache entry.
TickLength == (2 * stdTTL) \div 3

MaxHttpCalls == 4

Entry(date, open, high, low, close, volume) ==
  [date |-> date, open |-> open, high |-> high, low |-> low, close |-> close,
   volume |-> volume]

\* '100.0', '101.0', '99.0', '100.5', '1000' on the 14th.
Day14 ==
  Entry(14, <<"1", "0", "0", ".", "0">>, <<"1", "0", "1", ".", "0">>, <<"9", "9", ".", "0">>,
        <<"1", "0", "0", ".", "5">>, <<"1", "0", "0", "0">>)

\* '99.0', '100.0', '98.0', '99.5', '900' on the 13th.
Day13 ==
  Entry(13, <<"9", "9", ".", "0">>, <<"1", "0", "0", ".", "0">>, <<"9", "8", ".", "0">>,
        <<"9", "9", ".", "5">>, <<"9", "0", "0">>)

Invalid == <<"i", "n", "v", "a", "l", "i", "d">>

Series(entries) == [kind |-> "series", entries |-> entries]

Responses ==
  {Series(<<Day14, Day13>>),
   Series(<<[Day14 EXCEPT !.open = Invalid]>>),
   Series(<<[Day14 EXCEPT !.open = Invalid], Day13>>),
   Series(<<[Day14 EXCEPT !.high = <<"1", "0", "1", "a", "b", "c">>]>>),
   Series(<<[Day14 EXCEPT !.low = <<"1", "0", "2">>], [Day13 EXCEPT !.volume = <<"0">>]>>),
   [kind |-> "error_message", entries |-> <<>>],
   [kind |-> "note", entries |-> <<>>],
   [kind |-> "no_series", entries |-> <<>>],
   [kind |-> "network_error", entries |-> <<>>]}

\* What getMarketData makes of each of them.
ProcessedResponses == [response \in Responses |-> Processed(response)]

-----------------------------------------------------------------------------
(* MarketDataService.getHistoricalData with the historical cache of its    *)
(* DataManager.  Times are in seconds.                                     *)

\* this.CACHE_DURATION = 24 * 60 * 60 * 1000 milliseconds
CACHE_DURATION == 86400

\* historicalCache = new NodeCache({ stdTTL: 86400 })
historicalTTL == 86400

\* Date.now(), a number.
TimeNumber(time) == [kind |-> "number", time |-> time]

\* new Date().toISOString(), a text such as '2023-11-14T10:00:00.000Z'.
ToISOString(time) == [kind |-> "iso", time |-> time]

\* The number a value becomes in a subtraction: the text of a date is not
\* the text of a number.
ToNumberOf(value) == IF value.kind = "number" THEN Num(value.time) ELSE NaN

\* MarketDataService.isDataFresh(timestamp)
isDataFresh(timestamp, time) ==
  RLt(RSub(Num(time), ToNumberOf(timestamp)), Num(CACHE_DURATION))

\* formatHistoricalData: the items with their day as a number, oldest first.
HistoricalBar(item) ==
  [timestamp |-> item.timestamp, open |-> item.open, high |-> item.high,
   low |-> item.low, close |-> item.close, volume |-> item.volume,
   adjusted_close |-> item.close]

formatHistoricalData(data) ==
  SortByTimeTo(Array([i \in 1..Len(data) |-> HistoricalBar(data[i])]), Len(data))

\* DataManager.cacheData(key, data, 'historical'): { ...data, timestamp }
\* with the timestamp of the DataManager, set for historicalTTL seconds.
EnrichedData(data, time) ==
  [data |-> data.data, timestamp |-> ToISOString(time)]

CachedHistorical(data, time) ==
  [value |-> EnrichedData(data, time), storedAt |-> time, expires |-> time + historicalTTL]

NoHistorical ==
  [value |-> [data |-> <<>>, timestamp |-> TimeNumber(0)], storedAt |-> -1, expires |-> -1]

\* DataManager.getCachedData(key, 'historical') finds an entry.
HistoricalFound(entry, time) == entry.expires >= 0 /\ ~(entry.expires < time)

\* if (cachedData && this.isDataFresh(cachedData.timestamp))
UsesCached(entry, time) ==
  HistoricalFound(entry, time) /\ isDataFresh(entry.value.timestamp, time)

\* The symbols and intervals asked for.
Intervals == {"daily", "weekly"}

HistoricalKeys == Symbols \X Intervals

\* What alphaVantageService.getHistoricalData gives: two bars, newest first,
\* no bars, or an error.
HistoricalItem(day, close) ==
  [timestamp |-> day, open |-> Num(close), high |-> Num(close + 1), low |-> Num(close - 1),
   close |-> Num(close), volume |-> Num(1000)]

HistoricalAnswers ==
  {Returned(<<HistoricalItem(14, 101), HistoricalItem(13, 100)>>),
   Returned(<<>>),
   Threw("Alpha Vantage API error")}

MaxPending == 2

MaxFetches == 3

MaxHalfDays == 3

HalfDay == CACHE_DURATION \div 2

-----------------------------------------------------------------------------
(* What the operations do to the caller's input.  A JavaScript array is    *)
(* shared with the callee: sort, reverse, shift and pop change it in       *)
(* place, while length, an index read, map and slice leave it alone, and   *)
(* so does reading the properties of an object.                            *)

Untracked == <<>>

Reversed(array) == [i \in 1..Len(array) |-> array[Len(array) + 1 - i]]

\* The stable sort by close, ascending.
RECURSIVE InsertByClose(_, _)
InsertByClose(sorted, bar) ==
  IF sorted = <<>> THEN <<bar>>
  ELSE IF ~RGt(sorted[Len(sorted)].close, bar.close)
       THEN Append(sorted, bar)
  ELSE Append(InsertByClose(SubSeq(sorted, 1, Len(sorted) - 1), bar),
              sorted[Len(sorted)])

RECURSIVE SortByCloseTo(_, _)
SortByCloseTo(array, k) ==
  IF k = 0 THEN <<>> ELSE InsertByClose(SortByCloseTo(array, k - 1), array[k])

\* The receiver after one method call.
ArrayAfter(method, array) ==
  CASE method \in {"length", "index", "map", "slice", "read"} -> array
    [] method = "reverse" -> Reversed(array)
    [] method = "sort" -> SortByCloseTo(array, Len(array))
    [] method = "shift" -> IF array = <<>> THEN array ELSE Tail(array)
    [] method = "pop" -> IF array = <<>> THEN array ELSE SubSeq(array, 1, Len(array) - 1)

\* The receiver after the first k of the method calls.
RECURSIVE ArrayAfterUses(_, _, _)
ArrayAfterUses(uses, k, array) ==
  IF k = 0 THEN array ELSE ArrayAfter(uses[k], ArrayAfterUses(uses, k - 1, array))

\* BollingerBands.calculate: this.data.map(d => d.close), this.data[i].date.
BollingerBandsUses_ReversedFirst == <<"reverse", "map", "index">>

BollingerBandsUses == <<"map", "index">>

\* analyzePatterns hands data to the five detectors; each reads data.length
\* and works on data.slice(0, lookback).
AnalyzePatternsUses ==
  <<"length", "slice", "length", "slice", "length", "slice", "length", "slice",
    "length", "slice">>

\* TechnicalAnalysis.analyze after its length check: calculateRSI,
\* calculateMACD, calculateEMA, calculateBollingerBands, analyzeVolume,
\* calculateMovingAverages, calculateATR, calculateMFI,
\* calculateFibonacciLevels, analyzePatterns and analyzeBreakout on the same
\* array.
AnalyzeUses ==
  <<"length", "index">>
    \o <<"map">>
    \o <<"map">>
    \o BollingerBandsUses
    \o <<"slice", "length", "index">>
    \o <<"map", "slice">>
    \o <<"length", "index">>
    \o <<"length", "index">>
    \o <<"map", "index">>
    \o AnalyzePatternsUses
    \o <<"index">>

\* calculateStopLoss reads the properties of params.
CalculateStopLossUses == <<"read">>

UsesOfInput(operation) ==
  CASE operation = "analyze" -> AnalyzeUses
    [] operation = "calculateBollingerBands" -> BollingerBandsUses
    [] operation = "analyzePatterns" -> AnalyzePatternsUses
    [] operation = "calculateStopLoss" -> CalculateStopLossUses

\* The caller's input after the operation.
InputAfter(operation, input) ==
  ArrayAfterUses(UsesOfInput(operation), Len(UsesOfInput(operation)), input)

\* The argument of analyze after the call: nothing is called on a missing
\* series, and only the length of a short one is read.
AnalyzeInputAfter(marketData) ==
  IF ~marketData.given THEN marketData
  ELSE IF Len(marketData.data) < minBars
       THEN [marketData EXCEPT !.data = ArrayAfter("length", marketData.data)]
  ELSE [marketData EXCEPT !.data = InputAfter("analyze", marketData.data)]

-----------------------------------------------------------------------------
(* The calls.  The engine keeps nothing between calls: a call is made on   *)
(* the idle engine, and its result is dropped when the caller has it.      *)

Init ==
  /\ op = "none"
  /\ arg = <<>>
  /\ res = <<>>
  /\ inputAfter = Untracked
  /\ now = 0
  /\ cache = [s \in Symbols |-> NoEntry]
  /\ tokens = maxRequests
  /\ lastRefill = 0
  /\ calls = EmptyBag
  /\ httpCalls = 0
  /\ completedAt = [s \in Symbols |-> -1]
  /\ outcome = NoOutcome
  /\ granted = <<>>
  /\ historicalCache = [key \in HistoricalKeys |-> NoHistorical]
  /\ pending = EmptyBag
  /\ fetches = 0

CallAnalyzeBreakout ==
  /\ op = "none"
  /\ \E a \in BreakoutArgs :
       /\ UNCHANGED api
       /\ op' = "analyzeBreakout"
       /\ arg' = a
       /\ res' = analyzeBreakout(a.data0, a.ind)
       /\ inputAfter' = Untracked

CallAnalyzeBreakoutSimple ==
  /\ op = "none"
  /\ \E a \in SimpleArgs :
       /\ UNCHANGED api
       /\ op' = "analyzeBreakoutSimple"
       /\ arg' = a
       /\ res' = analyzeBreakoutSimple(a.data0, a.ind)
       /\ inputAfter' = Untracked

CallGeneratePatternSummary ==
  /\ op = "none"
  /\ \E p \in SummaryArgs :
       /\ UNCHANGED api
       /\ op' = "generatePatternSummary"
       /\ arg' = WithTypes(p)
       /\ res' = Returned(generatePatternSummary(WithTypes(p)))
       /\ inputAfter' = Untracked

CallGeneratePatternSummaryPrimary ==
  /\ op = "none"
  /\ \E p \in PrimaryArgs :
       /\ UNCHANGED api
       /\ op' = "generatePatternSummaryPrimary"
       /\ arg' = p
       /\ res' = Returned(generatePatternSummaryPrimary(p))
       /\ inputAfter' = Untracked

CallAnalyzePatterns ==
  /\ op = "none"
  /\ \E data \in PatternSeries :
       /\ UNCHANGED api
       /\ op' = "analyzePatterns"
       /\ arg' = data
       /\ res' = Returned(analyzePatterns(data))
       /\ inputAfter' = InputAfter("analyzePatterns", data)

CallAnalyze ==
  /\ op = "none"
  /\ \E a \in AnalyzeArgs :
       /\ UNCHANGED api
       /\ op' = "analyze"
       /\ arg' = a
       /\ res' = analyze(a)
       /\ inputAfter' = AnalyzeInputAfter(a)

CallCalculateMACD ==
  /\ op = "none"
  /\ \E data \in MacdSeries :
       /\ UNCHANGED api
       /\ op' = "calculateMACD"
       /\ arg' = data
       /\ res' = Returned(calculateMACD(data))
       /\ inputAfter' = Untracked

CallCalculateEMAValues ==
  /\ op = "none"
  /\ \E a \in EmaValuesArgs :
       /\ UNCHANGED api
       /\ op' = "calculateEMAValues"
       /\ arg' = a
       /\ res' = Returned(calculateEMAValues(a.prices, a.period))
       /\ inputAfter' = Untracked

CallCalculateEMA ==
  /\ op = "none"
  /\ \E a \in EmaArgs :
       /\ UNCHANGED api
       /\ op' = "calculateEMA"
       /\ arg' = a
       /\ res' = Returned(calculateEMA(a.data, a.period))
       /\ inputAfter' = Untracked

CallCalculateRSI ==
  /\ op = "none"
  /\ \E data \in RsiSeries :
       /\ UNCHANGED api
       /\ op' = "calculateRSI"
       /\ arg' = data
       /\ res' = Returned(calculateRSI(data))
       /\ inputAfter' = Untracked

CallCalculateBollingerBands ==
  /\ op = "none"
  /\ \E data \in BollingerSeries :
       /\ UNCHANGED api
       /\ op' = "calculateBollingerBands"
       /\ arg' = data
       /\ res' = Returned(calculateBollingerBands(data))
       /\ inputAfter' = InputAfter("calculateBollingerBands", data)

CallCalculateSMA ==
  /\ op = "none"
  /\ \E a \in SmaArgs :
       /\ UNCHANGED api
       /\ op' = "calculateSMA"
       /\ arg' = a
       /\ res' = Returned(calculateSMA(a.values, a.period))
       /\ inputAfter' = Untracked

CallCalculateMovingAverages ==
  /\ op = "none"
  /\ \E data \in MacdSeries :
       /\ UNCHANGED api
       /\ op' = "calculateMovingAverages"
       /\ arg' = data
       /\ res' = Returned(calculateMovingAverages(data))
       /\ inputAfter' = Untracked

CallCalculateStopLoss ==
  /\ op = "none"
  /\ \E params \in StopLossArgs :
       /\ UNCHANGED api
       /\ op' = "calculateStopLoss"
       /\ arg' = params
       /\ res' = calculateStopLoss(params)
       /\ inputAfter' = InputAfter("calculateStopLoss", params)

CallCalculatePatternStops ==
  /\ op = "none"
  /\ \E params \in PatternStopsArgs :
       /\ UNCHANGED api
       /\ op' = "calculatePatternStops"
       /\ arg' = params
       /\ res' = Returned(calculatePatternStops(params.currentPrice, params.patterns, params.atr))
       /\ inputAfter' = Untracked

CallIdentifyUptrend ==
  /\ op = "none"
  /\ \E data \in TrendWindows :
       /\ UNCHANGED api
       /\ op' = "identifyUptrend"
       /\ arg' = data
       /\ res' = Returned(identifyUptrend(data))
       /\ inputAfter' = Untracked

CallIdentifyDowntrend ==
  /\ op = "none"
  /\ \E data \in TrendWindows :
       /\ UNCHANGED api
       /\ op' = "identifyDowntrend"
       /\ arg' = data
       /\ res' = Returned(identifyDowntrend(data))
       /\ inputAfter' = Untracked

CallDetectPennant ==
  /\ op = "none"
  /\ \E data \in PennantSeries :
       /\ UNCHANGED api
       /\ op' = "detectPennant"
       /\ arg' = data
       /\ res' = Returned(detectPennant(data))
       /\ inputAfter' = Untracked

CallDetectHeadAndShoulders ==
  /\ op = "none"
  /\ \E data \in HeadAndShouldersSeries :
       /\ UNCHANGED api
       /\ op' = "detectHeadAndShoulders"
       /\ arg' = data
       /\ res' = Returned(detectHeadAndShoulders(data))
       /\ inputAfter' = Untracked

CallCalculateDynamicPositionSize ==
  /\ op = "none"
  /\ \E params \in PositionArgs :
       /\ UNCHANGED api
       /\ op' = "calculateDynamicPositionSize"
       /\ arg' = params
       /\ res' = calculateDynamicPositionSize(params)
       /\ inputAfter' = Untracked

Discard ==
  /\ op # "none"
  /\ UNCHANGED api
  /\ op' = "none"
  /\ arg' = <<>>
  /\ res' = <<>>
  /\ inputAfter' = Untracked

Next ==
  \/ CallAnalyzeBreakout
  \/ CallAnalyzeBreakoutSimple
  \/ CallGeneratePatternSummary
  \/ CallGeneratePatternSummaryPrimary
  \/ CallAnalyzePatterns
  \/ CallAnalyze
  \/ CallCalculateMACD
  \/ CallCalculateEMAValues
  \/ CallCalculateEMA
  \/ CallCalculateRSI
  \/ CallCalculateBollingerBands
  \/ CallCalculateSMA
  \/ CallCalculateMovingAverages
  \/ CallCalculateStopLoss
  \/ CallCalculatePatternStops
  \/ CallCalculateDynamicPositionSize
  \/ CallDetectPennant
  \/ CallIdentifyUptrend
  \/ CallIdentifyDowntrend
  \/ CallDetectHeadAndShoulders
  \/ Discard

Spec == Init /\ [][Next]_vars

-----------------------------------------------------------------------------
(* The APIHandler.  A getMarketData call runs to its first await when it   *)
(* is made, and from await to await afterwards.                            *)

\* getMarketData(symbol) is called: the cached data is returned at once, or
\* the entry whose time has passed is dropped and the call asks for a token.
StartCall(symbol) ==
  /\ BagCardinality(calls) < MaxCalls
  /\ IF CacheHit(cache[symbol], now)
     THEN /\ outcome' = [symbol |-> symbol, via |-> "cache",
                         result |-> Returned(cache[symbol].data)]
          /\ UNCHANGED <<cache, tokens, lastRefill, calls, httpCalls, completedAt>>
     ELSE /\ cache' = [cache EXCEPT ![symbol] = NoEntry]
          /\ waitForToken(calls, symbol)
          /\ outcome' = NoOutcome
          /\ UNCHANGED <<httpCalls, completedAt>>
  /\ UNCHANGED <<now, engine, history, granted>>

Start == \E symbol \in Symbols : StartCall(symbol)

\* The sleep of a call without a token is over: waitForToken runs again.
Wake ==
  \E call \in BagToSet(calls) :
    /\ call.pc = "waiting"
    /\ now >= call.wakeAt
    /\ waitForToken(Without(calls, call), call.symbol)
    /\ outcome' = NoOutcome
    /\ UNCHANGED <<now, cache, httpCalls, completedAt, engine, history, granted>>

\* The call has its token: axios.get is called.
SendRequest ==
  \E call \in BagToSet(calls) :
    /\ call.pc = "ready"
    /\ httpCalls < MaxHttpCalls
    /\ httpCalls' = httpCalls + 1
    /\ calls' = With(Without(calls, call), CallAt("fetching", call.symbol, 0))
    /\ outcome' = NoOutcome
    /\ UNCHANGED <<now, cache, tokens, lastRefill, completedAt, engine, history, granted>>

\* The call ends with what the response gave; data is cached.
Complete(call, result) ==
  /\ calls' = Without(calls, call)
  /\ outcome' = [symbol |-> call.symbol, via |-> "fetch", result |-> result]
  /\ IF result.threw
     THEN UNCHANGED <<cache, completedAt>>
     ELSE /\ cache' = [cache EXCEPT ![call.symbol] =
                         [data |-> result.value, expires |-> ExpiresAt(now)]]
          /\ completedAt' = [completedAt EXCEPT ![call.symbol] = now]

\* The HTTP client answers a call, or fails.
RespondTo(call, response) ==
  /\ call.pc = "fetching"
  /\ Complete(call, ProcessedResponses[response])
  /\ UNCHANGED <<now, tokens, lastRefill, httpCalls, engine, history, granted>>

Respond == \E call \in BagToSet(calls), response \in Responses : RespondTo(call, response)

Tick ==
  /\ now + TickLength <= MaxTicks * TickLength
  /\ now' = now + TickLength
  /\ outcome' = NoOutcome
  /\ UNCHANGED <<cache, tokens, lastRefill, calls, httpCalls, completedAt, engine, history, granted>>

ApiNext ==
  \/ Start
  \/ Wake
  \/ SendRequest
  \/ Respond
  \/ Tick

ApiSpec == Init /\ [][ApiNext]_vars

-----------------------------------------------------------------------------
(* The RateLimiter on its own: callers of waitForToken, and a clock that   *)
(* moves on by half a window.  A sleep that is over ends before the clock  *)
(* moves again.                                                            *)

\* The callers that may be inside waitForToken or just out of it at once.
MaxCallers == 7

HalfWindow == timeWindow \div 2

\* New callers come until the end of the first window; the clock stops two
\* windows later.
ArrivalsUntil == timeWindow

ClockStops == ArrivalsUntil + 2 * timeWindow

\* The resolutions of waitForToken less than timeWindow before the time.
RECURSIVE Within(_, _)
Within(times, time) ==
  IF times = <<>> THEN <<>>
  ELSE IF time - Head(times) < timeWindow THEN times
  ELSE Within(Tail(times), time)

\* waitForToken with the record of its resolution.
TokenAsked(others) ==
  /\ waitForToken(others, "none")
  /\ granted' = IF TokensAt(now) <= 0 THEN granted ELSE Append(granted, now)
  /\ outcome' = NoOutcome
  /\ UNCHANGED <<now, cache, httpCalls, completedAt, engine, history>>

\* A caller calls waitForToken.
AskToken ==
  /\ now <= ArrivalsUntil
  /\ BagCardinality(calls) < MaxCallers
  /\ TokenAsked(calls)

\* The sleep of a caller is over: waitForToken calls itself.
RetryToken ==
  \E call \in BagToSet(calls) :
    /\ call.pc = "waiting"
    /\ now >= call.wakeAt
    /\ TokenAsked(Without(calls, call))

\* A caller whose waitForToken resolved goes on.
Proceed ==
  \E call \in BagToSet(calls) :
    /\ call.pc = "ready"
    /\ calls' = Without(calls, call)
    /\ outcome' = NoOutcome
    /\ UNCHANGED <<now, cache, tokens, lastRefill, httpCalls, completedAt, granted, engine, history>>

SleepOver == \E call \in BagToSet(calls) : call.pc = "waiting" /\ now >= call.wakeAt

\* Half a window passes.
Pass ==
  /\ ~SleepOver
  /\ now + HalfWindow <= ClockStops
  /\ now' = now + HalfWindow
  /\ granted' = Within(granted, now + HalfWindow)
  /\ outcome' = NoOutcome
  /\ UNCHANGED <<cache, tokens, lastRefill, calls, httpCalls, completedAt, engine, history>>

LimiterNext ==
  \/ AskToken
  \/ RetryToken
  \/ Proceed
  \/ Pass

LimiterSpec == Init /\ [][LimiterNext]_vars

\* Time keeps advancing, a sleep that is over ends, and a caller goes on.
LimiterFairSpec ==
  /\ LimiterSpec
  /\ WF_vars(Pass)
  /\ WF_vars(RetryToken)
  /\ WF_vars(Proceed)

-----------------------------------------------------------------------------
(* MarketDataService.getHistoricalData: the call up to its await of        *)
(* alphaVantageService.getHistoricalData, and the call after it.           *)

HistoricalCalled(symbol, interval) ==
  /\ BagCardinality(pending) < MaxPending
  /\ IF UsesCached(historicalCache[<<symbol, interval>>], now)
     THEN /\ outcome' = [symbol |-> symbol, via |-> "cache",
                         result |-> Returned(historicalCache[<<symbol, interval>>].value.data)]
          /\ UNCHANGED <<pending, fetches>>
     ELSE /\ fetches < MaxFetches
          /\ fetches' = fetches + 1
          /\ pending' = pending (+) SetToBag({<<symbol, interval>>})
          /\ outcome' = NoOutcome
  /\ UNCHANGED <<now, cache, tokens, lastRefill, calls, httpCalls, completedAt, granted,
                 historicalCache, engine>>

GetHistoricalData == \E symbol \in Symbols, interval \in Intervals : HistoricalCalled(symbol, interval)

\* What the call makes of the answer: the formatted data, or an error.
HistoricalResult(answer) ==
  IF answer.threw THEN answer
  ELSE IF Len(answer.value) = 0 THEN Threw("No historical data available")
  ELSE Returned(formatHistoricalData(answer.value))

HistoricalAnswered(key, answer) ==
  /\ BagIn(key, pending)
  /\ pending' = pending (-) SetToBag({key})
  /\ outcome' = [symbol |-> key[1], via |-> "fetch", result |-> HistoricalResult(answer)]
  /\ IF HistoricalResult(answer).threw
     THEN UNCHANGED historicalCache
     ELSE historicalCache' =
            [historicalCache EXCEPT ![key] =
               CachedHistorical([data |-> HistoricalResult(answer).value,
                                 timestamp |-> TimeNumber(now)], now)]
  /\ UNCHANGED <<now, cache, tokens, lastRefill, calls, httpCalls, completedAt, granted,
                 fetches, engine>>

AnswerHistorical ==
  \E key \in HistoricalKeys, answer \in HistoricalAnswers : HistoricalAnswered(key, answer)

\* Half a day passes.
HalfDayPasses ==
  /\ now + HalfDay <= MaxHalfDays * HalfDay
  /\ now' = now + HalfDay
  /\ outcome' = NoOutcome
  /\ UNCHANGED <<cache, tokens, lastRefill, calls, httpCalls, completedAt, granted, history,
                 engine>>

HistoricalNext ==
  \/ GetHistoricalData
  \/ AnswerHistorical
  \/ HalfDayPasses

HistoricalSpec == Init /\ [][HistoricalNext]_vars

-----------------------------------------------------------------------------
(* Properties of analyzeBreakout                                           *)

BreakoutReturned == op = "analyzeBreakout" /\ ~res.threw

\* The exact weighted sum S of the votes behind a returned signal.
SumOfResult ==
  weightedSumExact(signals2(res.value.signals.bollinger, res.value.signals.macd,
                            res.value.signals.volume, res.value.signals.pattern,
                            res.value.signals.fibonacci))

\* C1: analyzeBreakout returns LONG iff the weighted sum S of the votes is above
\* 0.2, SHORT iff S is below -0.2, and NEUTRAL otherwise, S being
\* 0.25 technical + 0.20 momentum + 0.15 volume + 0.25 pattern + 0.15 fibonacci.
C1_DirectionBySum ==
  BreakoutReturned =>
    res.value.direction =
      (IF RGt(SumOfResult, Rat(1, 5)) THEN "LONG"
       ELSE IF RLt(SumOfResult, Rat(-1, 5)) THEN "SHORT"
       ELSE "NEUTRAL")

ScaledProbability ==
  LET base == RMin(Num(95), RMul(RAbs(SumOfResult), Num(100)))
      s    == arg.ind.patterns.summary
      pc   == s.dominantPattern.confidence
  IN  IF s.patternsFound /\ IsNum(pc)
      THEN RMul(base, RAdd(Num(1), RDiv(RSub(pc, Num(50)), Num(100))))
      ELSE base

C3_ConfidenceInRange ==
  BreakoutReturned =>
    /\ RLe(Num(0), res.value.confidence)
    /\ RLe(res.value.confidence, Num(100))

\* C4: every result of analyzeBreakout carries a timeframe in {SHORT, MEDIUM,
\* LONG}, and it is SHORT when the volume signal is STRONG.
C4_TimeframeChosen ==
  BreakoutReturned =>
    /\ "timeframe" \in DOMAIN res.value
    /\ res.value.timeframe \in {"SHORT", "MEDIUM", "LONG"}
    /\ (res.value.signals.volume = "STRONG" => res.value.timeframe = "SHORT")

-----------------------------------------------------------------------------
(* Properties of TechnicalAnalysis.analyze                                 *)

AnalyzeCalled == op = "analyze"

\* Every bar of the series is the same bar, with open = high = low = close.
ConstantSeries(data) ==
  /\ Len(data) > 0
  /\ data[1].open = data[1].close /\ data[1].high = data[1].close
  /\ data[1].low = data[1].close
  /\ \A i \in 1..Len(data) : data[i] = data[1]

\* C5: analyze on a series of at least 50 bars that are all the same bar with
\* open = high = low = close returns without throwing, reports none of the
\* five patterns as detected, and returns the breakout direction NEUTRAL.
C5_ConstantSeriesNeutral ==
  (AnalyzeCalled /\ arg.given /\ Len(arg.data) >= minBars /\ ConstantSeries(arg.data)) =>
    /\ ~res.threw
    /\ ~IsNull(res.value)
    /\ \A name \in PatternNames : ~res.value.patterns.patterns[name].detected
    /\ ~res.value.patterns.summary.patternsFound
    /\ res.value.breakout.direction = "NEUTRAL"
    /\ res.value.direction = "NEUTRAL"

\* 51 bars of 110 with volume 2000: no pattern, the only vote is the
\* Fibonacci one, and the direction is NEUTRAL.
C5_Witness ==
  /\ AnalyzeCalled /\ arg.given
  /\ Len(arg.data) = 51
  /\ \A i \in 1..Len(arg.data) : arg.data[i] = FlatBar
  /\ ~res.threw
  /\ res.value.breakout.signals.fibonacci = "SHORT"
  /\ res.value.breakout.signals.macd = "NEUTRAL"
  /\ res.value.direction = "NEUTRAL"

\* C6: analyze on a missing series or on fewer than 50 bars raises
\* InsufficientDataError and returns no value.
C6_InsufficientDataRaises ==
  (AnalyzeCalled /\ (~arg.given \/ Len(arg.data) < minBars)) =>
    res.threw /\ res.error = "InsufficientDataError"

\* low <= open, close <= high fails, or a price or the volume is not positive.
InvalidBar(bar) ==
  \/ ~(bar.low <= bar.open /\ bar.open <= bar.high)
  \/ ~(bar.low <= bar.close /\ bar.close <= bar.high)
  \/ bar.open <= 0 \/ bar.high <= 0 \/ bar.low <= 0 \/ bar.close <= 0
  \/ bar.volume <= 0

\* C8: analyze produces no indicator and no breakout result from a series
\* that holds a bar violating low <= open, close <= high or with a price or
\* volume that is not positive: the call throws or returns nothing.
C8_InvalidBarRejected ==
  (AnalyzeCalled /\ arg.given /\ \E i \in 1..Len(arg.data) : InvalidBar(arg.data[i])) =>
    res.threw \/ IsNull(res.value)

\* C7: analyzeBreakout on a bar without fields and four indicator objects
\* without fields returns NEUTRAL, probability 0, confidence 0 and timeframe
\* MEDIUM, and does not throw.
C7_EmptyInputNeutral ==
  (op \in {"analyzeBreakout", "analyzeBreakoutSimple"} /\ arg.shape = "empty") =>
    /\ ~res.threw
    /\ res.value.direction = "NEUTRAL"
    /\ res.value.probability = Num(0)
    /\ res.value.confidence = Num(0)
    /\ "timeframe" \in DOMAIN res.value
    /\ res.value.timeframe = "MEDIUM"

-----------------------------------------------------------------------------
(* Properties of PatternRecognitionService                                 *)

PositionOf(name) == CHOOSE i \in 1..Len(patternOrder) : patternOrder[i] = name

DetectedIn(patterns) == {name \in PatternNames : patterns[name].detected}

\* name is a detected pattern of maximum confidence, and the first such in
\* the order of the keys.
IsDominant(patterns, name, confidence) ==
  /\ name \in DetectedIn(patterns)
  /\ confidence = patterns[name].confidence
  /\ \A other \in DetectedIn(patterns) :
       /\ ~RGt(patterns[other].confidence, confidence)
       /\ PositionOf(other) < PositionOf(name) =>
            RLt(patterns[other].confidence, confidence)

\* C9: when at least one detector reports detected, generatePatternSummary
\* selects one dominant pattern: a detected pattern whose confidence is the
\* maximum over the detected ones and, among those tied at the maximum, the
\* first in the order bullFlag, bearFlag, pennant, triangle, headAndShoulders;
\* when none is detected it reports no dominant pattern.
C9_DominantIsFirstMaximum ==
  /\ op = "generatePatternSummary" =>
       IF DetectedIn(arg) = {}
       THEN ~res.value.patternsFound /\ res.value.dominantPattern = NullPattern
       ELSE /\ res.value.patternsFound
            /\ IsDominant(arg, res.value.dominantPattern.name,
                          res.value.dominantPattern.confidence)
            /\ res.value.dominantPattern.type = arg[res.value.dominantPattern.name].type
  /\ op = "generatePatternSummaryPrimary" =>
       IF DetectedIn(arg) = {}
       THEN ~res.value.detected
       ELSE /\ res.value.detected
            /\ IsDominant(arg, res.value.primaryPattern, res.value.confidence)

\* bearFlag and triangle tie at the maximum 100 above a bullFlag of 40: the
\* dominant pattern is bearFlag.
C9_Witness ==
  /\ op = "generatePatternSummary"
  /\ DetectedIn(arg) = {"bullFlag", "bearFlag", "triangle"}
  /\ arg["bullFlag"].confidence = Num(40)
  /\ arg["bearFlag"].confidence = Num(100)
  /\ arg["triangle"].confidence = Num(100)
  /\ res.value.dominantPattern.name = "bearFlag"

\* C10: on a series of fewer than 5 bars analyzePatterns returns, without
\* throwing, every pattern as detected:false; and headAndShoulders is
\* detected:false whenever fewer than three peaks are found.
C10_ShortSeriesNothingDetected ==
  op = "analyzePatterns" =>
    /\ ~res.threw
    /\ Len(arg) < minPatternBars =>
         \A name \in PatternNames : ~res.value.patterns[name].detected
    /\ Len(findSignificantPeaks(Lookback(arg))) < 3 =>
         ~res.value.patterns["headAndShoulders"].detected

-----------------------------------------------------------------------------
(* Properties of the indicators                                            *)

\* C11: on a series of at least 50 bars calculateMACD returns value = EMA12 -
\* EMA26 of the closes and histogram = value - signal, with trend BULLISH
\* exactly when histogram > 0 and BEARISH otherwise.
C11_MacdHistogramAndTrend ==
  (op = "calculateMACD" /\ Len(arg) >= minBars) =>
    /\ res.value.value =
         RSub(calculateEMAValues(Array([i \in 1..Len(arg) |-> Num(arg[i].close)]),
                                 macdFast)[1],
              calculateEMAValues(Array([i \in 1..Len(arg) |-> Num(arg[i].close)]),
                                 macdSlow)[1])
    /\ res.value.histogram = RSub(res.value.value, res.value.signal)
    /\ (res.value.trend = "BULLISH") <=> RGt(res.value.histogram, Num(0))

\* One step of the recurrence: (price - ema) * multiplier + ema.
EmaStep(price, ema, period) == RAdd(RMul(RSub(price, ema), Rat(2, period + 1)), ema)

\* C12: calculateEMA and calculateEMAValues fold the closes in chronological
\* order, so the last step of the recurrence behind the reported current EMA
\* is taken with the close at index 0, the newest.
C12_NewestCloseFoldedLast ==
  /\ (op = "calculateEMAValues" /\ Len(res.value) >= 2) =>
       res.value[1] = EmaStep(arg.prices[1], res.value[2], arg.period)
  /\ op = "calculateEMA" =>
       res.value =
         EmaStep(Num(arg.data[1].close),
                 EmaDown(Closes(arg.data), Rat(2, arg.period.n + 1), arg.period.n - 1, 1,
                         calculateSMA(Closes(arg.data), arg.period.n)),
                 arg.period.n)

\* C13: calculateRSI returns a value in [0, 100], and exactly 100 when and
\* only when every chronological change (a close minus the close of the bar
\* just before it in time) inside the 14-bar window is non-negative.
C13_RsiHundredIffNoLoss ==
  op = "calculateRSI" =>
    /\ RLe(Num(0), res.value) /\ RLe(res.value, Num(100))
    /\ (res.value = Num(100)) <=>
         \A i \in 1..(rsiPeriod - 1) : arg[i].close - arg[i + 1].close >= 0

\* The period most recent closes of a newest-first series: indices 0 .. period - 1.
MostRecentWindow(data, period) == Slice(Closes(data), 0, period)

\* C14: on a series longer than the period calculateBollingerBands describes
\* the most recent window: middle is the mean of the closes at indices
\* 0 .. period - 1, and upper and lower are middle plus and minus the
\* multiplier times the population standard deviation of those closes.
C14_BandsOfMostRecentWindow ==
  (op = "calculateBollingerBands" /\ Len(arg) > bbPeriod) =>
    /\ res.value.middle = BandSMA(MostRecentWindow(arg, bbPeriod))
    /\ res.value.upper = RAdd(res.value.middle,
                              RMul(Num(bbStdDev), BandStdDev(MostRecentWindow(arg, bbPeriod))))
    /\ res.value.lower = RSub(res.value.middle,
                              RMul(Num(bbStdDev), BandStdDev(MostRecentWindow(arg, bbPeriod))))

\* What a simple average yields when it sums the values there are and still
\* divides by the period.
PartialAverage(values, period) == Rat(SumSeq(values), period)

\* C15: when there are fewer values than the period, calculateSMA fails or
\* returns a sentinel, and the SMA50 and SMA200 of calculateMovingAverages are
\* never the sum of fewer than period values divided by period.
C15_NoPartialAverage ==
  /\ (op = "calculateSMA" /\ Len(arg.values) < arg.period) =>
       \/ res.threw
       \/ res.value # PartialAverage(arg.values, arg.period)
  /\ (op = "calculateMovingAverages" /\ Len(arg) < 200) =>
       \/ res.threw
       \/ res.value.sma200 # PartialAverage(Closes(arg), 200)
  /\ (op = "calculateMovingAverages" /\ Len(arg) < 50) =>
       \/ res.threw
       \/ res.value.sma50 # PartialAverage(Closes(arg), 50)

-----------------------------------------------------------------------------
(* Properties of StopLossService and RiskManager                           *)

\* The confidence of the dominant pattern, 0 when there is none.
DominantConfidence(dominantPattern) ==
  IF dominantPattern = NullPattern THEN Num(0) ELSE dominantPattern.confidence

\* optimal is the given tier of the recommendations, with the given reason.
OptimalIs(levels, tier, reason) ==
  /\ levels.optimal.reason = reason
  /\ levels.optimal.initial = levels.recommendations[tier].initial
  /\ levels.optimal.timeframe = levels.recommendations[tier].timeframe
  /\ levels.optimal.risk_percent = levels.recommendations[tier].risk_percent

\* C16: calculateStopLoss picks the optimal tier by priority: a dominant
\* pattern of confidence above 0.7 gives conservative (HIGH_CONFIDENCE_PATTERN);
\* else ATR/price >= 0.03 gives conservative (HIGH_VOLATILITY, LONG_TERM);
\* else ATR/price <= 0.01 gives aggressive (LOW_VOLATILITY, SHORT_TERM);
\* else moderate (BALANCED_CONDITIONS).
C16_OptimalTierByPriority ==
  (op = "calculateStopLoss" /\ ~res.threw) =>
    IF RGt(DominantConfidence(arg.patterns), Rat(7, 10))
    THEN OptimalIs(res.value, "conservative", "HIGH_CONFIDENCE_PATTERN")
    ELSE IF RLe(Rat(3, 100), RDiv(arg.atr, arg.currentPrice))
    THEN /\ OptimalIs(res.value, "conservative", "HIGH_VOLATILITY")
         /\ res.value.optimal.timeframe = "LONG_TERM"
    ELSE IF RLe(RDiv(arg.atr, arg.currentPrice), Rat(1, 100))
    THEN /\ OptimalIs(res.value, "aggressive", "LOW_VOLATILITY")
         /\ res.value.optimal.timeframe = "SHORT_TERM"
    ELSE OptimalIs(res.value, "moderate", "BALANCED_CONDITIONS")

\* A confident pattern in a quiet market: the pattern decides, and the tier is
\* the conservative one.
C16_Witness ==
  /\ op = "calculateStopLoss"
  /\ ~res.threw
  /\ RGt(DominantConfidence(arg.patterns), Rat(7, 10))
  /\ RLe(RDiv(arg.atr, arg.currentPrice), Rat(1, 100))
  /\ res.value.optimal.reason = "HIGH_CONFIDENCE_PATTERN"
  /\ res.value.optimal.timeframe = "LONG_TERM"

\* The distance between the price and the optimal stop of the call.
StopDistance(params) ==
  RAbs(RSub(params.currentPrice,
            calculateStopLoss(StopLossParams(params)).value.optimal.initial))

GivenRiskPercent(params) ==
  IF params.riskPercent = Null THEN Num(1) ELSE params.riskPercent

GivenScaling(params) ==
  IF params.confidence = "HIGH_CONFIDENCE" THEN Num(1)
  ELSE IF params.confidence = "LOW_CONFIDENCE" THEN Rat(1, 2)
  ELSE Rat(3, 4)

\* C17: calculateDynamicPositionSize returns floor(capital * riskPercent / 100
\* / |currentPrice - optimalStop|) scaled by the confidence multiplier (1,
\* 0.75 or 0.5) and floored, with riskPercent capped at 2, so that the shares
\* times the stop distance never exceed 2% of the capital.
C17_PositionWithinRiskCap ==
  (op = "calculateDynamicPositionSize" /\ ~res.threw) =>
    /\ res.value =
         RFloor(RMul(RFloor(RDiv(RDiv(RMul(arg.capital,
                                           RMin(GivenRiskPercent(arg), Num(2))),
                                      Num(100)),
                                 StopDistance(arg))),
                     GivenScaling(arg)))
    /\ ~RGt(RMul(res.value, StopDistance(arg)), RMul(arg.capital, Rat(2, 100)))

\* A call that asks for 5% risk and gets a position.
C17_Witness ==
  /\ op = "calculateDynamicPositionSize"
  /\ ~res.threw
  /\ arg.riskPercent = Num(5)
  /\ res.value.k = "num"
  /\ res.value.n > 0

\* C18: calculatePatternStops gives a pattern-specific stop only for a
\* pattern whose confidence reaches the confidence_threshold of its type in
\* PATTERN_MULTIPLIERS; below the threshold there is no pattern stop, neither
\* from calculatePatternStops nor in what calculateStopLoss consolidates.
C18_NoPatternStopBelowThreshold ==
  (/\ op \in {"calculatePatternStops", "calculateStopLoss"}
   /\ ~res.threw
   /\ arg.patterns # NullPattern
   /\ arg.patterns.type \in DOMAIN PATTERN_MULTIPLIERS
   /\ RLt(arg.patterns.confidence,
          PATTERN_MULTIPLIERS[arg.patterns.type].confidence_threshold)) =>
    IF op = "calculatePatternStops"
    THEN res.value.pattern_specific = Null
    ELSE res.value.pattern_based.pattern_specific = Null

-----------------------------------------------------------------------------
(* Properties of APIHandler.getMarketData, checked under ApiSpec.          *)

\* The step is a getMarketData(symbol) call made less than stdTTL seconds
\* after a call for the symbol completed with data.
CalledWithinTtl(symbol) ==
  /\ StartCall(symbol)
  /\ completedAt[symbol] >= 0
  /\ now - completedAt[symbol] < stdTTL

\* The data is what getMarketData made of a response.
FetchedData(data) ==
  \E response \in Responses : ProcessedResponses[response] = Returned(data)

\* C19: once getMarketData(symbol) has completed with data, every later
\* getMarketData call for the symbol made before the 300 seconds of the cache
\* entry are over returns the cached data at once: the HTTP client is not
\* called, no rate-limiter token is taken and the call waits for nothing, so
\* the number of HTTP calls stays what it was.
C19_CachedWithinTtl ==
  [][\A symbol \in Symbols :
       CalledWithinTtl(symbol) =>
         /\ outcome' = [symbol |-> symbol, via |-> "cache",
                        result |-> Returned(cache[symbol].data)]
         /\ FetchedData(cache[symbol].data)
         /\ httpCalls' = httpCalls
         /\ tokens' = tokens
         /\ lastRefill' = lastRefill
         /\ calls' = calls
         /\ cache' = cache]_vars

\* A call answered from the cache some time after the only HTTP call so far
\* completed with data for its symbol.
C19_Witness ==
  /\ outcome.via = "cache"
  /\ httpCalls = 1
  /\ completedAt[outcome.symbol] >= 0
  /\ now > completedAt[outcome.symbol]
  /\ now - completedAt[outcome.symbol] < stdTTL

\* The text is a decimal number and nothing else: digits, and possibly a
\* point and more digits.
NumericText(text) ==
  /\ DigitsEnd(text, 1) > 0
  /\ \/ DigitsEnd(text, 1) = Len(text)
     \/ /\ text[DigitsEnd(text, 1) + 1] = "."
        /\ DigitsEnd(text, DigitsEnd(text, 1) + 2) = Len(text)
        /\ DigitsEnd(text, 1) + 1 < Len(text)

NumericEntry(entry) ==
  /\ NumericText(entry.open)
  /\ NumericText(entry.high)
  /\ NumericText(entry.low)
  /\ NumericText(entry.close)
  /\ NumericText(entry.volume)

\* The response carries a bar with a field that is not a number.
HasNonNumericBar(response) ==
  /\ response.kind = "series"
  /\ \E i \in 1..Len(response.entries) : ~NumericEntry(response.entries[i])

\* Every bar has numbers for open, high, low, close and volume, a volume
\* above 0, and low <= open, close <= high.
BarsValid(data) ==
  \A i \in 1..Len(data) :
    /\ data[i].open.k = "num" /\ data[i].high.k = "num" /\ data[i].low.k = "num"
    /\ data[i].close.k = "num" /\ data[i].volume.k = "num"
    /\ RGt(data[i].volume, Num(0))
    /\ RLe(data[i].low, data[i].open) /\ RLe(data[i].open, data[i].high)
    /\ RLe(data[i].low, data[i].close) /\ RLe(data[i].close, data[i].high)

\* C20: getMarketData never returns or caches a bar that fails validation
\* (numeric open, high, low, close and volume, volume > 0, low <= open,
\* close <= high), and a response with a bar that has a non-numeric field is
\* rejected with an error: the call throws and nothing is cached.
C20_InvalidBarsRejected ==
  [][\A call \in BagToSet(calls), response \in Responses :
       RespondTo(call, response) =>
         /\ ~outcome'.result.threw => BarsValid(outcome'.result.value)
         /\ \A symbol \in Symbols : BarsValid(cache'[symbol].data)
         /\ HasNonNumericBar(response) =>
              /\ outcome'.result.threw
              /\ cache' = cache]_vars

\* The part of C20 that holds: what is returned and what is cached has valid
\* bars only.
ReturnedAndCachedBarsValid ==
  /\ ~outcome.result.threw => BarsValid(outcome.result.value)
  /\ \A symbol \in Symbols : BarsValid(cache[symbol].data)

\* A response with a non-numeric bar that gave data.
NonNumericBarGaveData ==
  \E response \in Responses :
    /\ HasNonNumericBar(response)
    /\ outcome.via = "fetch"
    /\ outcome.result = ProcessedResponses[response]
    /\ ~outcome.result.threw

-----------------------------------------------------------------------------
(* The order of the bars the fetchers hand to TechnicalAnalysis.analyze.   *)

\* One entry of 'Time Series (Daily)' as MarketDataAPI.processMarketData maps
\* it.
DatedBar(entry) ==
  [date |-> entry.date,
   open |-> ParseFloat(entry.open),
   high |-> ParseFloat(entry.high),
   low |-> ParseFloat(entry.low),
   close |-> ParseFloat(entry.close),
   volume |-> ParseInt(entry.volume),
   adjClose |-> ParseFloat(entry.close)]

\* Its filter: no future dates, open and close are numbers, volume above 0.
KeptBar(bar, currentDate) ==
  /\ bar.date <= currentDate
  /\ ~IsNaN(bar.open)
  /\ ~IsNaN(bar.close)
  /\ RGt(bar.volume, Num(0))

RECURSIVE KeptBarsTo(_, _, _)
KeptBarsTo(entries, k, currentDate) ==
  IF k = 0 THEN <<>>
  ELSE IF KeptBar(DatedBar(entries[k]), currentDate)
       THEN Append(KeptBarsTo(entries, k - 1, currentDate), DatedBar(entries[k]))
  ELSE KeptBarsTo(entries, k - 1, currentDate)

\* The stable sort by date, newest first.
RECURSIVE InsertByDate(_, _)
InsertByDate(sorted, bar) ==
  IF sorted = <<>> THEN <<bar>>
  ELSE IF sorted[Len(sorted)].date >= bar.date
       THEN Append(sorted, bar)
  ELSE Append(InsertByDate(SubSeq(sorted, 1, Len(sorted) - 1), bar),
              sorted[Len(sorted)])

RECURSIVE SortByDateTo(_, _)
SortByDateTo(bars, k) ==
  IF k = 0 THEN <<>> ELSE InsertByDate(SortByDateTo(bars, k - 1), bars[k])

\* MarketDataAPI.processMarketData(rawData) on the day currentDate.
processMarketData(response, currentDate) ==
  IF response.kind # "series" THEN Threw("Invalid API response format")
  ELSE IF KeptBarsTo(response.entries, Len(response.entries), currentDate) = <<>>
       THEN Threw("No valid market data available after filtering")
  ELSE Returned(SortByDateTo(KeptBarsTo(response.entries, Len(response.entries), currentDate),
                             Len(KeptBarsTo(response.entries, Len(response.entries),
                                            currentDate))))

\* The days on which the data is processed.
CurrentDates == {13, 14}

ProcessedMarketData ==
  [response \in Responses |->
     [currentDate \in CurrentDates |-> processMarketData(response, currentDate)]]

\* MarketAnalyzer.analyzeStocks hands what apiHandler.getMarketData returned
\* to technicalAnalysis.analyze as it is.
AnalyzedSeries == outcome.result.value

\* C21: every series that reaches TechnicalAnalysis.analyze is newest first:
\* what APIHandler.getMarketData returns to MarketAnalyzer.analyzeStocks, and
\* what MarketDataAPI.processMarketData returns, has its bars in strictly
\* descending date order.
C21_FetchersNewestFirst ==
  /\ (outcome.via # "none" /\ ~outcome.result.threw) =>
       \A i \in 1..(Len(AnalyzedSeries) - 1) :
         AnalyzedSeries[i].timestamp > AnalyzedSeries[i + 1].timestamp
  /\ \A response \in Responses, currentDate \in CurrentDates :
       ~ProcessedMarketData[response][currentDate].threw =>
         \A i \in 1..(Len(ProcessedMarketData[response][currentDate].value) - 1) :
           ProcessedMarketData[response][currentDate].value[i].date
             > ProcessedMarketData[response][currentDate].value[i + 1].date

\* The part of C21 about MarketDataAPI, which holds, with a series of two
\* bars to order.
MarketDataAPINewestFirst ==
  \A response \in Responses, currentDate \in CurrentDates :
    ~ProcessedMarketData[response][currentDate].threw =>
      \A i \in 1..(Len(ProcessedMarketData[response][currentDate].value) - 1) :
        ProcessedMarketData[response][currentDate].value[i].date
          > ProcessedMarketData[response][currentDate].value[i + 1].date

-----------------------------------------------------------------------------
(* The caller's input after a call.                                        *)

\* C22: no engine operation changes the caller's input: after analyze,
\* BollingerBands.calculate, analyzePatterns or calculateStopLoss has
\* returned or thrown, the input has the same length, the same bar order and
\* the same field values in every bar as it had when the call was made.
C22_InputUnchanged ==
  op \in {"analyze", "calculateBollingerBands", "analyzePatterns", "calculateStopLoss"} =>
    inputAfter = arg

\* BollingerBands.calculate has returned, and its input was a series that a
\* reversal in place would have changed.
C22_Witness ==
  /\ op = "calculateBollingerBands"
  /\ Len(arg) >= 20
  /\ Reversed(arg) # arg
  /\ inputAfter = arg

-----------------------------------------------------------------------------
(* Properties of the trend segments.                                       *)

\* The number of bar-to-bar returns of the window above 0 (sign 1) or below
\* 0 (sign -1); the closes are positive, so a return has the sign of the
\* difference of the closes.
ReturnsOfSign(data, sign) ==
  Cardinality({i \in 1..(Len(data) - 1) :
                 IF sign = 1 THEN data[i + 1].close > data[i].close
                 ELSE data[i + 1].close < data[i].close})

\* More than 70% of the returns have the sign.
MostReturnsOfSign(data, sign) ==
  10 * ReturnsOfSign(data, sign) > 7 * (Len(data) - 1)

StrictlyDecreasing(data) ==
  \A i \in 1..(Len(data) - 1) : data[i + 1].close < data[i].close

\* C23: a trend segment is valid exactly when the regression slope has the
\* expected sign and more than 70% of the bar-to-bar returns have that sign:
\* identifyUptrend wants slope > 0 and more than 70% positive returns,
\* identifyDowntrend slope < 0 and more than 70% negative returns, so a
\* strictly decreasing window of closes is a valid downtrend.
C23_TrendValidBySlopeAndReturns ==
  /\ op = "identifyUptrend" =>
       (res.value.isValid <=>
          /\ RGt(calculateTrendlineSlope(Closes(arg)), Num(0))
          /\ MostReturnsOfSign(arg, 1))
  /\ op = "identifyDowntrend" =>
       /\ res.value.isValid <=>
            /\ RLt(calculateTrendlineSlope(Closes(arg)), Num(0))
            /\ MostReturnsOfSign(arg, -1)
       /\ StrictlyDecreasing(arg) => res.value.isValid

\* The part of C23 about identifyUptrend, which holds.
UptrendValidBySlopeAndReturns ==
  op = "identifyUptrend" =>
    (res.value.isValid <=>
       /\ RGt(calculateTrendlineSlope(Closes(arg)), Num(0))
       /\ MostReturnsOfSign(arg, 1))

-----------------------------------------------------------------------------
(* The range of the pattern confidences.                                   *)

WithinPercent(confidence) ==
  /\ confidence.k = "num"
  /\ RLe(Num(0), confidence)
  /\ RLe(confidence, Num(100))

\* C24: every pattern reported as detected has a confidence in the
\* normalized range 0..100, for each of the five pattern types and every
\* window, a pennant whose pole moved by more than 100% included.
C24_PatternConfidenceWithinPercent ==
  /\ (op = "detectPennant" /\ res.value.detected) =>
       WithinPercent(res.value.confidence)
  /\ op = "analyzePatterns" =>
       \A name \in PatternNames :
         res.value.patterns[name].detected =>
           WithinPercent(res.value.patterns[name].confidence)

\* A detected pennant after a pole of 10% to 100%: its confidence is in range.
PennantWithinPercent ==
  /\ op = "detectPennant"
  /\ res.value.detected
  /\ WithinPercent(res.value.confidence)

-----------------------------------------------------------------------------
(* Properties of the RateLimiter, checked under LimiterSpec and            *)
(* LimiterFairSpec.                                                        *)

\* C25: the RateLimiter limits the throughput to maxRequests per timeWindow:
\* whatever the order of the callers, no interval of timeWindow contains
\* more than maxRequests resolved waitForToken calls.
C25_AtMostMaxRequestsPerWindow ==
  Len(granted) <= maxRequests

Waiting == {call \in BagToSet(calls) : call.pc = "waiting"}

WaitingCalls == IF Waiting = {} THEN 0 ELSE BagCardinality([call \in Waiting |-> calls[call]])

\* A retry after a sleep finds tokens or sleeps for a time above 0.
RetryMakesProgress ==
  [][\A call \in BagToSet(calls) :
       (call.pc = "waiting" /\ now >= call.wakeAt /\ TokenAsked(Without(calls, call))) =>
         \E next \in BagToSet(calls') :
           /\ calls' = With(Without(calls, call), next)
           /\ next.pc = "ready" \/ (next.pc = "waiting" /\ next.wakeAt > now)]_vars

-----------------------------------------------------------------------------
(* Properties of MarketDataService.getHistoricalData, checked under        *)
(* HistoricalSpec.                                                         *)

\* The step is a getHistoricalData(symbol, interval) call made less than 24
\* hours after a call with the same symbol and interval succeeded, with the
\* cache entry still there.
CalledWithinADay(symbol, interval) ==
  /\ HistoricalCalled(symbol, interval)
  /\ historicalCache[<<symbol, interval>>].storedAt >= 0
  /\ now - historicalCache[<<symbol, interval>>].storedAt < CACHE_DURATION
  /\ HistoricalFound(historicalCache[<<symbol, interval>>], now)

\* C27: after getHistoricalData(symbol, interval) has succeeded, a second
\* call with the same symbol and interval made less than 24 hours later and
\* before the cache entry expires returns the cached series and does not
\* call alphaVantageService.getHistoricalData again.
C27_HistoricalCachedForADay ==
  [][\A symbol \in Symbols, interval \in Intervals :
       CalledWithinADay(symbol, interval) =>
         /\ outcome' = [symbol |-> symbol, via |-> "cache",
                        result |-> Returned(historicalCache[<<symbol, interval>>].value.data)]
         /\ fetches' = fetches
         /\ pending' = pending]_vars


-----------------------------------------------------------------------------
(* The tiers of consolidateStopLevels                                      *)

\* The prices that are there: a stop that was not computed is null.
Present(stops) == {stops[i] : i \in {j \in 1..Len(stops) : stops[j] # Null}}

IsMinimumOf(stop, candidates) ==
  stop \in candidates /\ \A other \in candidates : RLe(stop, other)

ConservativeCandidates(levels) ==
  Present(<<levels.technical_levels.support_based, levels.volatility_based.wide,
            levels.time_based.long_term.initial, levels.pattern_based.pattern_specific>>)

ModerateCandidates(levels) ==
  Present(<<levels.volatility_based.normal, levels.time_based.medium_term.initial,
            levels.pattern_based.pattern_specific>>)

AggressiveCandidates(levels) ==
  Present(<<levels.volatility_based.tight, levels.time_based.short_term.initial>>)

StopLossAnswered ==
  /\ op = "calculateStopLoss"
  /\ ~res.threw
  /\ RGt(arg.currentPrice, Num(0))
  /\ RLe(Num(0), arg.atr)

\* C28: for a current price above 0 and an ATR of 0 or more, with or
\* without a support and a dominant pattern, each tier calculateStopLoss
\* returns is the least of its candidate prices, and
\* conservative.initial <= moderate.initial <= aggressive.initial.
C28_TiersAreMinimaInOrder ==
  StopLossAnswered =>
    /\ IsMinimumOf(res.value.recommendations.conservative.initial,
                   ConservativeCandidates(res.value))
    /\ IsMinimumOf(res.value.recommendations.moderate.initial,
                   ModerateCandidates(res.value))
    /\ IsMinimumOf(res.value.recommendations.aggressive.initial,
                   AggressiveCandidates(res.value))
    /\ RLe(res.value.recommendations.conservative.initial,
           res.value.recommendations.moderate.initial)
    /\ RLe(res.value.recommendations.moderate.initial,
           res.value.recommendations.aggressive.initial)

\* A call with a support and a pattern whose support-based stop is the
\* conservative tier, below the moderate one, below the aggressive one.
C28_Witness ==
  /\ StopLossAnswered
  /\ res.value.technical_levels.support_based # Null
  /\ res.value.pattern_based.pattern_specific # Null
  /\ res.value.recommendations.conservative.initial
       = res.value.technical_levels.support_based
  /\ RLt(res.value.recommendations.conservative.initial,
         res.value.recommendations.moderate.initial)
  /\ RLt(res.value.recommendations.moderate.initial,
         res.value.recommendations.aggressive.initial)


-----------------------------------------------------------------------------
(* The squeeze of calculateBollingerBands                                  *)

\* The bandwidths of the windows of a series, in the order of the bands.
BandwidthsOf(data) ==
  [k \in 1..(Len(data) - bbPeriod + 1) |->
     Bandwidth(BandWindow(Closes(data), bbPeriod, bbPeriod - 2 + k), bbStdDev)]

\* The average of the (at most 20) bandwidths before the last one.
PrecedingAverage(bandwidths) ==
  RDiv(RSumSeq(SubSeq(bandwidths, Max2(1, Len(bandwidths) - 20), Len(bandwidths) - 1)),
       Num(Len(bandwidths) - Max2(1, Len(bandwidths) - 20)))

BollingerAnswered ==
  /\ op = "calculateBollingerBands"
  /\ ~res.threw
  /\ Len(arg) > bbPeriod
  /\ RGt(res.value.squeeze.averageBandwidth, Num(0))

-----------------------------------------------------------------------------
(* The order of the peaks of a head and shoulders                          *)

PeaksOf(data) == findSignificantPeaks(Lookback(data))

\* The highest of the peaks.
HighestPeak(peaks) ==
  CHOOSE peak \in {peaks[i] : i \in 1..Len(peaks)} :
    \A i \in 1..Len(peaks) : peaks[i].price <= peak.price

HeadAndShouldersDetected ==
  /\ op = "detectHeadAndShoulders"
  /\ ~res.threw
  /\ res.value.detected

\* C30: when detectHeadAndShoulders reports a pattern, the highest peak
\* lies strictly between the two shoulders in bar order:
\* startIndex < index of the head < endIndex.
C30_HeadBetweenShoulders ==
  HeadAndShouldersDetected =>
    /\ res.value.startIndex < HighestPeak(PeaksOf(arg)).index
    /\ HighestPeak(PeaksOf(arg)).index < res.value.endIndex

\* A pattern is reported with the head between the shoulders.
HeadBetweenShouldersReported ==
  /\ HeadAndShouldersDetected
  /\ res.value.startIndex < HighestPeak(PeaksOf(arg)).index
  /\ HighestPeak(PeaksOf(arg)).index < res.value.endIndex

=============================================================================
